---- MODULE Spec2Model ----
(***************************************************************************)
(* Model of the ipblocker DNS filter: the reverse-label trie, the list     *)
(* store, the client registry and the policy evaluator of package          *)
(* dnslookup.                                                              *)
(*                                                                         *)
(* Go strings are modelled as sequences of one-character strings, so that   *)
(* strings.Split, strings.ToLower, strings.TrimSpace and strings.Trim are   *)
(* computed character by character, as the code computes them.             *)
(***************************************************************************)
EXTENDS Integers, Sequences, FiniteSets, TLC

VARIABLES
    BlocklistTries,  \* DNSFilter.BlocklistTries : list name -> trie
    WhitelistTries,  \* DNSFilter.WhitelistTries : list name -> trie
    Clients,         \* DNSFilter.Clients        : ip -> ClientConfig
    clientsNil,      \* TRUE when DNSFilter.Clients is the nil map
    blockFiles,      \* files of BlocklistDir    : list name -> lines
    whiteFiles,      \* files of WhitelistDir    : list name -> lines
    configDoc,       \* the file at ConfigPath
    lastOp,          \* the last call made on the DNSFilter and its outcome
    crashed,         \* TRUE once a handler goroutine has panicked
    nOps,            \* number of calls made so far
    trie,            \* trie under construction (label-trie specification)
    tEntries,        \* entries inserted into trie, in order
    tLast,           \* last lookup on trie and its result
    dnsOut,          \* what the last ServeDNS call wrote and delegated
    loader,          \* setupOnce, the callers of setup and what they constructed
    lk,              \* df.mutex, the handler goroutines and the trie objects they use
    web              \* the exchange that timeoutMiddleware and a handler serve

vars == <<BlocklistTries, WhitelistTries, Clients, clientsNil, blockFiles,
          whiteFiles, configDoc, lastOp, crashed, nOps, trie, tEntries, tLast,
          dnsOut, loader, lk, web>>

engineVars == <<BlocklistTries, WhitelistTries, Clients, clientsNil, blockFiles,
                whiteFiles, configDoc, lastOp, crashed, nOps>>

trieVars == <<trie, tEntries, tLast>>

plugVars == <<dnsOut, loader, lk, web>>

-----------------------------------------------------------------------------
(* Strings *)

EmptyStr == <<>>

LowerChar(c) ==
    CASE c = "A" -> "a"
      [] c = "B" -> "b"
      [] c = "C" -> "c"
      [] c = "X" -> "x"
      [] OTHER -> c

UpperChar(c) ==
    CASE c = "a" -> "A"
      [] c = "b" -> "B"
      [] c = "c" -> "C"
      [] c = "x" -> "X"
      [] OTHER -> c

RECURSIVE ToLower(_)
\* strings.ToLower
ToLower(s) ==
    IF Len(s) = 0 THEN <<>> ELSE <<LowerChar(Head(s))>> \o ToLower(Tail(s))

RECURSIVE ToUpper(_)
ToUpper(s) ==
    IF Len(s) = 0 THEN <<>> ELSE <<UpperChar(Head(s))>> \o ToUpper(Tail(s))

\* strings.Index(s, ch) for a one-character needle: 0-based, -1 when absent
Index(s, ch) ==
    IF \E i \in 1..Len(s) : s[i] = ch
    THEN (CHOOSE i \in 1..Len(s) : s[i] = ch /\ \A j \in 1..(i-1) : s[j] # ch) - 1
    ELSE -1

RECURSIVE Split(_, _)
\* strings.Split(s, sep) for a one-character separator
Split(s, sep) ==
    LET idx == Index(s, sep)
    IN  IF idx < 0 THEN <<s>>
        ELSE <<SubSeq(s, 1, idx)>> \o Split(SubSeq(s, idx + 2, Len(s)), sep)

RECURSIVE TrimLeft(_, _)
TrimLeft(s, cutset) ==
    IF Len(s) > 0 /\ s[1] \in cutset THEN TrimLeft(Tail(s), cutset) ELSE s

RECURSIVE TrimRight(_, _)
TrimRight(s, cutset) ==
    IF Len(s) > 0 /\ s[Len(s)] \in cutset
    THEN TrimRight(SubSeq(s, 1, Len(s) - 1), cutset) ELSE s

\* strings.Trim(s, cutset)
Trim(s, cutset) == TrimRight(TrimLeft(s, cutset), cutset)

\* strings.TrimSpace
TrimSpace(s) == Trim(s, {" "})

\* strings.HasPrefix(s, "#")
HasPrefixHash(s) == Len(s) > 0 /\ s[1] = "#"

RECURSIVE Join(_, _)
\* strings.Join(parts, sep)
Join(parts, sep) ==
    IF Len(parts) = 0 THEN EmptyStr
    ELSE IF Len(parts) = 1 THEN parts[1]
    ELSE parts[1] \o sep \o Join(Tail(parts), sep)

RECURSIVE Reverse(_)
\* the in-place reversal loop of ReverseDomainParts
Reverse(s) ==
    IF Len(s) = 0 THEN <<>> ELSE Append(Reverse(Tail(s)), Head(s))

SeqToSet(s) == {s[i] : i \in 1..Len(s)}

-----------------------------------------------------------------------------
(* Label trie *)

\* NewNode: no children, not an endpoint, no exceptions
NewNode == [IsEndpoint |-> FALSE, Exceptions |-> {}]

\* A trie is the function from the path of a node (the labels from the root,
\* TLD first) to the node's fields; Children[part] of the node at path p is
\* the node at path Append(p, part).  The root is the node at the empty path.
NewTrie == (<<>> :> NewNode)

\* ReverseDomainParts: lower-case, split on ".", reverse
ReverseDomainParts(domain) == Reverse(Split(ToLower(domain), "."))

RECURSIVE ParseExceptionParts(_, _)
\* the loop of ParseDomainWithExceptions over parts[i..]
ParseExceptionParts(parts, i) ==
    IF i > Len(parts) THEN <<>>
    ELSE LET exPart == Trim(TrimSpace(parts[i]), {",", " "})
         IN  (IF exPart # EmptyStr THEN <<exPart>> ELSE <<>>)
                 \o ParseExceptionParts(parts, i + 1)

\* ParseDomainWithExceptions(entry) -> (domain, exceptions)
ParseDomainWithExceptions(entry) ==
    IF Index(entry, "!") > 0
    THEN LET parts == Split(entry, "!")
         IN  [domain |-> TrimSpace(parts[1]),
              exceptions |-> ParseExceptionParts(parts, 2)]
    ELSE [domain |-> entry, exceptions |-> <<>>]

\* variant of InsertDomain that replaces the exceptions of the endpoint
InsertDomain_ReplaceExceptions(root, domain, exceptions) ==
    LET parts == Reverse(Split(ToLower(domain), "."))
        onPath == {SubSeq(parts, 1, i) : i \in 1..Len(parts)}
        node(p) == IF p \in DOMAIN root THEN root[p] ELSE [IsEndpoint |-> FALSE, Exceptions |-> {}]
    IN  [p \in (DOMAIN root) \cup onPath |->
            IF p = parts
            THEN [IsEndpoint |-> TRUE, Exceptions |-> SeqToSet(exceptions)]
            ELSE node(p)]

\* variant of InsertDomain that keeps the letter case of the domain labels
InsertDomain_KeepCase(root, domain, exceptions) ==
    LET parts == Reverse(Split(domain, "."))
        onPath == {SubSeq(parts, 1, i) : i \in 1..Len(parts)}
        node(p) == IF p \in DOMAIN root THEN root[p] ELSE NewNode
    IN  [p \in (DOMAIN root) \cup onPath |->
            IF p = parts
            THEN [IsEndpoint |-> TRUE,
                  Exceptions |-> node(p).Exceptions \cup SeqToSet(exceptions)]
            ELSE node(p)]

\* variant of InsertDomain that adds the exceptions to every node it walks
\* through
InsertDomain_ExceptionsOnPath(root, domain, exceptions) ==
    LET parts == ReverseDomainParts(domain)
        onPath == {SubSeq(parts, 1, i) : i \in 1..Len(parts)}
        node(p) == IF p \in DOMAIN root THEN root[p] ELSE NewNode
    IN  [p \in (DOMAIN root) \cup onPath |->
            IF p \in onPath
            THEN [IsEndpoint |-> (p = parts) \/ node(p).IsEndpoint,
                  Exceptions |-> node(p).Exceptions \cup SeqToSet(exceptions)]
            ELSE node(p)]

\* InsertDomain(root, domain, exceptions)
InsertDomain(root, domain, exceptions) ==
    LET parts == ReverseDomainParts(domain)
        onPath == {SubSeq(parts, 1, i) : i \in 1..Len(parts)}
        node(p) == IF p \in DOMAIN root THEN root[p] ELSE NewNode
    IN  [p \in (DOMAIN root) \cup onPath |->
            IF p = parts
            THEN [IsEndpoint |-> TRUE,
                  Exceptions |-> node(p).Exceptions \cup SeqToSet(exceptions)]
            ELSE node(p)]

RECURSIVE IsDomainBlockedFrom_Deeper(_, _, _)
\* variant of the loop that goes on below an endpoint whose exceptions do not
\* name the next label, as long as the name leads to a deeper node
IsDomainBlockedFrom_Deeper(root, parts, i) ==
    IF i > Len(parts) THEN FALSE
    ELSE LET p == SubSeq(parts, 1, i)
         IN  IF p \notin DOMAIN root THEN FALSE
             ELSE IF root[p].IsEndpoint
                  THEN IF i + 1 <= Len(parts) /\ parts[i + 1] \in root[p].Exceptions
                       THEN FALSE
                       ELSE IF i + 1 <= Len(parts) /\ SubSeq(parts, 1, i + 1) \in DOMAIN root
                            THEN IsDomainBlockedFrom_Deeper(root, parts, i + 1)
                            ELSE TRUE
                  ELSE IsDomainBlockedFrom_Deeper(root, parts, i + 1)

RECURSIVE IsDomainBlockedFrom(_, _, _)
\* the loop of IsDomainBlocked from index i (1-based) of parts
IsDomainBlockedFrom(root, parts, i) ==
    IF i > Len(parts) THEN FALSE
    ELSE LET p == SubSeq(parts, 1, i)
         IN  IF p \notin DOMAIN root THEN FALSE
             ELSE IF root[p].IsEndpoint
                  THEN ~(i + 1 <= Len(parts) /\ parts[i + 1] \in root[p].Exceptions)
                  ELSE IsDomainBlockedFrom(root, parts, i + 1)

\* IsDomainBlocked(root, domain)
IsDomainBlocked(root, domain) ==
    IsDomainBlockedFrom(root, ReverseDomainParts(domain), 1)

\* IsDomainAllowed: same logic as IsDomainBlocked
IsDomainAllowed(root, domain) == IsDomainBlocked(root, domain)

\* the entry is parsed and inserted, as every caller of InsertDomain does
InsertEntry(root, entry) ==
    LET parsed == ParseDomainWithExceptions(entry)
    IN  InsertDomain(root, parsed.domain, parsed.exceptions)

RECURSIVE InsertAll(_, _)
\* the "add all domains" loop of CreateList, UpdateList and AddDomains
InsertAll(root, entries) ==
    IF Len(entries) = 0 THEN root
    ELSE InsertAll(InsertEntry(root, Head(entries)), Tail(entries))

-----------------------------------------------------------------------------
(* List files and the client document *)

Put(f, k, v) == [y \in (DOMAIN f) \cup {k} |-> IF y = k THEN v ELSE f[y]]

Drop(f, k) == [y \in (DOMAIN f) \ {k} |-> f[y]]

\* all orders in which a Go map with key set S may be ranged over
Orders(S) ==
    {o \in [1..Cardinality(S) -> S] : \A i, j \in 1..Cardinality(S) : o[i] = o[j] => i = j}

RECURSIVE FormatExceptions(_, _)
\* the loop of FormatDomainWithExceptions from index i (1-based)
FormatExceptions(exceptions, i) ==
    IF i > Len(exceptions) THEN EmptyStr
    ELSE (IF i = 1 THEN <<" ", "!">> ELSE <<",", " ", "!">>)
             \o exceptions[i] \o FormatExceptions(exceptions, i + 1)

\* variant of FormatDomainWithExceptions that writes the domain only
FormatDomainWithExceptions_DomainOnly(domain, exceptions) == domain

\* FormatDomainWithExceptions(domain, exceptions)
FormatDomainWithExceptions(domain, exceptions) ==
    IF Len(exceptions) = 0 THEN domain
    ELSE domain \o FormatExceptions(exceptions, 1)

\* the children of the node at path p
ChildrenOf(root, p) ==
    {c \in DOMAIN root : Len(c) = Len(p) + 1 /\ SubSeq(c, 1, Len(p)) = p}

RECURSIVE ExtractFrom(_, _)
RECURSIVE ExtractChildren(_, _, _)
\* extractDomainsFromTrie(node at path p, prefix p): the set of results it can
\* append, one for every order in which the two maps can be ranged over
ExtractFrom(root, p) ==
    LET own == IF root[p].IsEndpoint
               THEN {<<FormatDomainWithExceptions(Join(Reverse(p), <<".">>), ex)>> :
                        ex \in Orders(root[p].Exceptions)}
               ELSE {<<>>}
        below == UNION {ExtractChildren(root, o, 1) : o \in Orders(ChildrenOf(root, p))}
    IN  {a \o b : a \in own, b \in below}

\* the loop over node.Children, taken in order o, from its i-th child on
ExtractChildren(root, o, i) ==
    IF i > Len(o) THEN {<<>>}
    ELSE {a \o b : a \in ExtractFrom(root, o[i]), b \in ExtractChildren(root, o, i + 1)}

\* extractDomainsFromTrie(trie, []string{}, &result): the possible results
extractDomainsFromTrie(root) == ExtractFrom(root, <<>>)

RECURSIVE countDomainsFrom(_, _)
countDomainsFrom(root, nodes) ==
    IF nodes = {} THEN 0
    ELSE LET p == CHOOSE n \in nodes : TRUE
         IN  (IF root[p].IsEndpoint THEN 1 ELSE 0) + countDomainsFrom(root, nodes \ {p})

\* countDomainsInTrie: the number of endpoint nodes
countDomainsInTrie(root) == countDomainsFrom(root, DOMAIN root)

\* the two comment lines and the blank line SaveDomainList writes first
FileHeader == << <<"#", "g">>, <<"#", "u">>, EmptyStr >>

\* the file SaveDomainList writes: the header, then one line per domain
FileLines(domains) == FileHeader \o domains

RECURSIVE LoadLines(_, _)
\* the scanner loop of LoadDomainList
LoadLines(root, lines) ==
    IF Len(lines) = 0 THEN root
    ELSE LET line == TrimSpace(Head(lines))
         IN  IF line = EmptyStr \/ HasPrefixHash(line)
             THEN LoadLines(root, Tail(lines))
             ELSE LoadLines(InsertEntry(root, line), Tail(lines))

\* LoadDomainList(filename) for a file that can be opened
LoadDomainList(lines) == LoadLines(NewTrie, lines)

\* the document at ConfigPath: absent, unparsable, JSON null, or an object
DocAbsent == [state |-> "absent", clients |-> <<>>]
DocCorrupt == [state |-> "corrupt", clients |-> <<>>]
DocNull == [state |-> "null", clients |-> <<>>]
DocOf(clients) == [state |-> "object", clients |-> clients]

\* LoadClientConfig(filename) -> (clients, clients is nil, err)
LoadClientConfig(doc) ==
    CASE doc.state = "absent" -> [clients |-> <<>>, isNil |-> FALSE, err |-> "nil"]
      [] doc.state = "corrupt" -> [clients |-> <<>>, isNil |-> TRUE, err |-> "parse"]
      [] doc.state = "null" -> [clients |-> <<>>, isNil |-> TRUE, err |-> "nil"]
      [] OTHER -> [clients |-> doc.clients, isNil |-> FALSE, err |-> "nil"]

\* collectUniqueListFiles: the names referenced by some client, per kind
collectUniqueListFiles(clients) ==
    [blocklists |-> UNION {SeqToSet(clients[ip].BlocklistRefs) : ip \in DOMAIN clients},
     whitelists |-> UNION {SeqToSet(clients[ip].WhitelistRefs) : ip \in DOMAIN clients}]

\* variant: every list file of the directory is loaded, named or not
LoadReferenced_AllFiles(names, files) ==
    [n \in DOMAIN files |-> LoadDomainList(files[n])]

\* the loops "Load blocklists" / "Load whitelists" of Initialize: a referenced
\* list whose file cannot be opened is skipped
LoadReferenced(names, files) ==
    [n \in names \cap DOMAIN files |-> LoadDomainList(files[n])]

NoOp == [op |-> "none", name |-> "", type |-> "", ip |-> "", domain |-> EmptyStr,
         err |-> "nil", allowed |-> FALSE]

\* NewDNSFilter followed by DNSFilter.Initialize on a disk image
Initialize(image) ==
    LET loaded == LoadClientConfig(image.doc)
        refs == collectUniqueListFiles(loaded.clients)
    IN  /\ Clients = loaded.clients
        /\ clientsNil = loaded.isNil
        /\ BlocklistTries = IF loaded.err # "nil" THEN <<>>
                            ELSE LoadReferenced(refs.blocklists, image.blockFiles)
        /\ WhitelistTries = IF loaded.err # "nil" THEN <<>>
                            ELSE LoadReferenced(refs.whitelists, image.whiteFiles)
        /\ blockFiles = image.blockFiles
        /\ whiteFiles = image.whiteFiles
        /\ configDoc = image.doc
        /\ lastOp = NoOp
        /\ crashed = FALSE
        /\ nOps = 0

-----------------------------------------------------------------------------
(* The plugin around the DNSFilter: the state of the DNS handler, of the     *)
(* loader and of df.mutex when no call is in progress                        *)

\* the DNSFilter as NewDNSFilter returns it, before any file is read
EngineIdle ==
    /\ BlocklistTries = <<>>
    /\ WhitelistTries = <<>>
    /\ Clients = <<>>
    /\ clientsNil = FALSE
    /\ blockFiles = <<>>
    /\ whiteFiles = <<>>
    /\ configDoc = DocAbsent
    /\ lastOp = NoOp
    /\ crashed = FALSE
    /\ nOps = 0

\* no ServeDNS call has been made
NoReq == [ip |-> "", qname |-> EmptyStr]

NoDns == [state |-> "idle", req |-> NoReq, wrote |-> "none", replyTo |-> NoReq,
          next |-> FALSE, passed |-> NoReq, ret |-> "none"]

DnsIdle == dnsOut = NoDns

\* the goroutines that may enter setup
LoaderCallers == {"c1", "c2"}

\* setupOnce has not been used and no caller is inside setup
LoaderNew == [once |-> "new", pc |-> [c \in LoaderCallers |-> "out"],
              built |-> 0, started |-> 0, running |-> FALSE, entries |-> 0]

\* setup has run once: the engine is constructed and the API server started
LoaderLoaded == [once |-> "done", pc |-> [c \in LoaderCallers |-> "out"],
                 built |-> 1, started |-> 1, running |-> TRUE, entries |-> 1]

LoaderIdle == loader = LoaderLoaded

\* the handler goroutines that call mutators and those that call readers
LockWriters == {"w1", "w2"}

LockReaders == {"r1", "r2"}

LockProcs == LockWriters \cup LockReaders

\* the locals of a handler goroutine that serves no request
NoCall == [kind |-> "none", body |-> <<>>, i |-> 0, root |-> 0, ptr |-> 0,
           obs |-> <<>>, answered |-> FALSE, err |-> "nil"]

\* df.mutex is free, no handler goroutine is inside the DNSFilter; objs are
\* the root nodes on the heap, list is the root that the map holds for the
\* list (0: no such key), latest is the trie of the last completed mutator
LockFree == [writer |-> "none", readers |-> {}, pc |-> [p \in LockProcs |-> "idle"],
             loc |-> [p \in LockProcs |-> NoCall], objs |-> <<>>, list |-> 0,
             latest |-> NewTrie, calls |-> 0]

LockIdle == lk = LockFree

\* no request is in the middleware: nothing is written, the header map of
\* the ResponseWriter is empty
NoExchange == [n |-> 0, op |-> "none", err |-> "nil", hpc |-> "none", mpc |-> "none",
               expiry |-> "never", hdr |-> "", wrote |-> FALSE,
               resp |-> [status |-> 0, ctype |-> "", body |-> <<>>],
               late |-> "none", leaked |-> 0, fatal |-> FALSE]

WebIdle == web = NoExchange

PlugIdle == DnsIdle /\ LoaderIdle /\ LockIdle /\ WebIdle

-----------------------------------------------------------------------------
(* DNSFilter operations.  Every mutator runs under df.mutex.Lock() and the  *)
(* evaluator under df.mutex.RLock(), so each call is one step.  A call       *)
(* leaves its outcome in lastOp; Respond hands it to the caller.             *)

\* bound: number of calls made on the DNSFilter in one run
MaxOps == 3

TriesOf(listType) ==
    IF listType = "blocklist" THEN BlocklistTries ELSE WhitelistTries

FilesOf(listType) ==
    IF listType = "blocklist" THEN blockFiles ELSE whiteFiles

IsListType(listType) == listType = "blocklist" \/ listType = "whitelist"

SetTries(listType, tries) ==
    /\ BlocklistTries' = IF listType = "blocklist" THEN tries ELSE BlocklistTries
    /\ WhitelistTries' = IF listType = "whitelist" THEN tries ELSE WhitelistTries

\* SaveDomainList(listName, listType, domains): io = "ok" writes the file;
\* io = "fail" is os.MkdirAll or os.Create failing, which leaves the file alone
SaveDomainList(listName, listType, domains, io) ==
    /\ blockFiles' = IF io = "ok" /\ listType = "blocklist"
                     THEN Put(blockFiles, listName, FileLines(domains)) ELSE blockFiles
    /\ whiteFiles' = IF io = "ok" /\ listType = "whitelist"
                     THEN Put(whiteFiles, listName, FileLines(domains)) ELSE whiteFiles

\* SaveClientConfig() of the registry clients: io = "ok" writes the document;
\* io = "fail" is os.MkdirAll or os.Create failing, which leaves it alone
SaveClientConfig(clients, io) ==
    configDoc' = IF io = "ok" THEN DocOf(clients) ELSE configDoc

SaveErr(io) == IF io = "ok" THEN "nil" ELSE "io"

CanCall == lastOp.op = "none" /\ ~crashed /\ nOps < MaxOps

ListCall(op, listName, listType, err) ==
    /\ lastOp' = [NoOp EXCEPT !.op = op, !.name = listName, !.type = listType, !.err = err]
    /\ nOps' = nOps + 1

ClientCall(op, ip, err) ==
    /\ lastOp' = [NoOp EXCEPT !.op = op, !.ip = ip, !.err = err]
    /\ nOps' = nOps + 1

\* the early error returns of the list mutators: no state is touched
ListCallFails(op, listName, listType, err, io) ==
    /\ io = "ok"
    /\ ListCall(op, listName, listType, err)
    /\ UNCHANGED <<BlocklistTries, WhitelistTries, Clients, clientsNil, blockFiles,
                   whiteFiles, configDoc, crashed>>

\* variant of CreateList that does not check whether the list exists
CreateList_Overwrite(list, io) ==
    /\ CanCall
    /\ IF ~IsListType(list.Type)
       THEN ListCallFails("CreateList", list.Name, list.Type, "invalid list type", io)
       ELSE /\ SetTries(list.Type,
                        Put(TriesOf(list.Type), list.Name, InsertAll(NewTrie, list.Domains)))
            /\ SaveDomainList(list.Name, list.Type, list.Domains, io)
            /\ ListCall("CreateList", list.Name, list.Type, SaveErr(io))
            /\ UNCHANGED <<Clients, clientsNil, configDoc, crashed>>

\* DNSFilter.CreateList(list)
CreateList(list, io) ==
    /\ CanCall
    /\ IF ~IsListType(list.Type)
       THEN ListCallFails("CreateList", list.Name, list.Type, "invalid list type", io)
       ELSE IF list.Name \in DOMAIN TriesOf(list.Type)
       THEN ListCallFails("CreateList", list.Name, list.Type, "already exists", io)
       ELSE /\ SetTries(list.Type,
                        Put(TriesOf(list.Type), list.Name, InsertAll(NewTrie, list.Domains)))
            /\ SaveDomainList(list.Name, list.Type, list.Domains, io)
            /\ ListCall("CreateList", list.Name, list.Type, SaveErr(io))
            /\ UNCHANGED <<Clients, clientsNil, configDoc, crashed>>

\* variant of UpdateList that inserts the entries into the trie the list has
UpdateList_InPlace(list, io) ==
    /\ CanCall
    /\ IF ~IsListType(list.Type)
       THEN ListCallFails("UpdateList", list.Name, list.Type, "invalid list type", io)
       ELSE IF list.Name \notin DOMAIN TriesOf(list.Type)
       THEN ListCallFails("UpdateList", list.Name, list.Type, "list not found", io)
       ELSE /\ SetTries(list.Type,
                        Put(TriesOf(list.Type), list.Name,
                            InsertAll(TriesOf(list.Type)[list.Name], list.Domains)))
            /\ SaveDomainList(list.Name, list.Type, list.Domains, io)
            /\ ListCall("UpdateList", list.Name, list.Type, SaveErr(io))
            /\ UNCHANGED <<Clients, clientsNil, configDoc, crashed>>

\* DNSFilter.UpdateList(list)
UpdateList(list, io) ==
    /\ CanCall
    /\ IF ~IsListType(list.Type)
       THEN ListCallFails("UpdateList", list.Name, list.Type, "invalid list type", io)
       ELSE IF list.Name \notin DOMAIN TriesOf(list.Type)
       THEN ListCallFails("UpdateList", list.Name, list.Type, "list not found", io)
       ELSE /\ SetTries(list.Type,
                        Put(TriesOf(list.Type), list.Name, InsertAll(NewTrie, list.Domains)))
            /\ SaveDomainList(list.Name, list.Type, list.Domains, io)
            /\ ListCall("UpdateList", list.Name, list.Type, SaveErr(io))
            /\ UNCHANGED <<Clients, clientsNil, configDoc, crashed>>

\* variant of removeFromSlice that removes nothing
removeFromSlice_Keep(slice, item) == slice

RECURSIVE removeFromSlice(_, _)
\* removeFromSlice(slice, item)
removeFromSlice(slice, item) ==
    IF Len(slice) = 0 THEN <<>>
    ELSE (IF Head(slice) # item THEN <<Head(slice)>> ELSE <<>>)
             \o removeFromSlice(Tail(slice), item)

\* variant of removeListReferencesFromClients that strips the name from the
\* references of both kinds
removeListReferencesFromClients_BothKinds(clients, listName, listType) ==
    [ip \in DOMAIN clients |->
        [clients[ip] EXCEPT
            !.BlocklistRefs = removeFromSlice(clients[ip].BlocklistRefs, listName),
            !.WhitelistRefs = removeFromSlice(clients[ip].WhitelistRefs, listName)]]

\* removeListReferencesFromClients: the registry after the loop over df.Clients
removeListReferencesFromClients(clients, listName, listType) ==
    [ip \in DOMAIN clients |->
        IF listType = "blocklist"
        THEN [clients[ip] EXCEPT
                 !.BlocklistRefs = removeFromSlice(clients[ip].BlocklistRefs, listName)]
        ELSE [clients[ip] EXCEPT
                 !.WhitelistRefs = removeFromSlice(clients[ip].WhitelistRefs, listName)]]

\* variant of DeleteList that returns the error of os.Remove
DeleteList_ReturnsRemoveError(listName, listType, io, rm) ==
    /\ CanCall
    /\ IF ~IsListType(listType)
       THEN /\ rm = "ok"
            /\ ListCallFails("DeleteList", listName, listType, "invalid list type", io)
       ELSE IF listName \notin DOMAIN TriesOf(listType)
       THEN /\ rm = "ok"
            /\ ListCallFails("DeleteList", listName, listType, "list not found", io)
       ELSE LET repaired == removeListReferencesFromClients(Clients, listName, listType)
                updated == repaired # Clients
            IN  /\ SetTries(listType, Drop(TriesOf(listType), listName))
                /\ Clients' = repaired
                /\ IF updated THEN SaveClientConfig(repaired, io)
                   ELSE io = "ok" /\ UNCHANGED configDoc
                /\ blockFiles' = IF rm = "ok" /\ listType = "blocklist"
                                 THEN Drop(blockFiles, listName) ELSE blockFiles
                /\ whiteFiles' = IF rm = "ok" /\ listType = "whitelist"
                                 THEN Drop(whiteFiles, listName) ELSE whiteFiles
                /\ ListCall("DeleteList", listName, listType,
                            IF rm = "ok" THEN "nil" ELSE "io")
                /\ UNCHANGED <<clientsNil, crashed>>

\* DNSFilter.DeleteList(listName, listType): the document is saved only when a
\* client was changed; a failing save or a failing os.Remove is only logged
DeleteList(listName, listType, io, rm) ==
    /\ CanCall
    /\ IF ~IsListType(listType)
       THEN /\ rm = "ok"
            /\ ListCallFails("DeleteList", listName, listType, "invalid list type", io)
       ELSE IF listName \notin DOMAIN TriesOf(listType)
       THEN /\ rm = "ok"
            /\ ListCallFails("DeleteList", listName, listType, "list not found", io)
       ELSE LET repaired == removeListReferencesFromClients(Clients, listName, listType)
                updated == repaired # Clients
            IN  /\ SetTries(listType, Drop(TriesOf(listType), listName))
                /\ Clients' = repaired
                /\ IF updated THEN SaveClientConfig(repaired, io)
                   ELSE io = "ok" /\ UNCHANGED configDoc
                /\ blockFiles' = IF rm = "ok" /\ listType = "blocklist"
                                 THEN Drop(blockFiles, listName) ELSE blockFiles
                /\ whiteFiles' = IF rm = "ok" /\ listType = "whitelist"
                                 THEN Drop(whiteFiles, listName) ELSE whiteFiles
                /\ ListCall("DeleteList", listName, listType, "nil")
                /\ UNCHANGED <<clientsNil, crashed>>

\* DNSFilter.AddDomains(listName, listType, domains): inserts into the
\* published trie, then writes the enumeration of the trie to the file
AddDomains(listName, listType, domains, io) ==
    /\ CanCall
    /\ IF ~IsListType(listType)
       THEN ListCallFails("AddDomains", listName, listType, "invalid list type", io)
       ELSE IF listName \notin DOMAIN TriesOf(listType)
       THEN ListCallFails("AddDomains", listName, listType, "list not found", io)
       ELSE LET merged == InsertAll(TriesOf(listType)[listName], domains)
            IN  /\ SetTries(listType, Put(TriesOf(listType), listName, merged))
                /\ \E allDomains \in extractDomainsFromTrie(merged) :
                       SaveDomainList(listName, listType, allDomains, io)
                /\ ListCall("AddDomains", listName, listType, SaveErr(io))
                /\ UNCHANGED <<Clients, clientsNil, configDoc, crashed>>

\* the base domains of a removal request (domainsToRemove)
domainsToRemove(domains) ==
    {ParseDomainWithExceptions(domains[i]).domain : i \in 1..Len(domains)}

RECURSIVE remainingDomains(_, _)
\* the entries of currentDomains whose base domain is not to be removed
remainingDomains(currentDomains, toRemove) ==
    IF Len(currentDomains) = 0 THEN <<>>
    ELSE (IF ParseDomainWithExceptions(Head(currentDomains)).domain \notin toRemove
          THEN <<Head(currentDomains)>> ELSE <<>>)
             \o remainingDomains(Tail(currentDomains), toRemove)

\* DNSFilter.RemoveDomains(listName, listType, domains): rebuilds the trie
\* from the enumerated entries that are kept and writes them to the file
RemoveDomains(listName, listType, domains, io) ==
    /\ CanCall
    /\ IF ~IsListType(listType)
       THEN ListCallFails("RemoveDomains", listName, listType, "invalid list type", io)
       ELSE IF listName \notin DOMAIN TriesOf(listType)
       THEN ListCallFails("RemoveDomains", listName, listType, "list not found", io)
       ELSE \E currentDomains \in extractDomainsFromTrie(TriesOf(listType)[listName]) :
              LET remaining == remainingDomains(currentDomains, domainsToRemove(domains))
              IN  /\ SetTries(listType,
                              Put(TriesOf(listType), listName, InsertAll(NewTrie, remaining)))
                  /\ SaveDomainList(listName, listType, remaining, io)
                  /\ ListCall("RemoveDomains", listName, listType, SaveErr(io))
                  /\ UNCHANGED <<Clients, clientsNil, configDoc, crashed>>

\* variant of validateListReferences that accepts every reference
validateListReferences_None(client) == "nil"

\* validateListReferences(client): the first missing reference, or "nil"
validateListReferences(client) ==
    IF \E i \in 1..Len(client.BlocklistRefs) : client.BlocklistRefs[i] \notin DOMAIN BlocklistTries
    THEN "referenced blocklist not found"
    ELSE IF \E i \in 1..Len(client.WhitelistRefs) : client.WhitelistRefs[i] \notin DOMAIN WhitelistTries
    THEN "referenced whitelist not found"
    ELSE "nil"

IsMode(mode) == mode = "blocklist" \/ mode = "whitelist"

\* variant of the copy that loses the whitelist references
StoredConfig_DropWhitelist(client) ==
    [BlocklistRefs |-> client.BlocklistRefs,
     WhitelistRefs |-> <<>>,
     Mode |-> client.Mode]

\* the ClientConfig stored for a request: the refs and the mode are copied,
\* the IP is the map key
StoredConfig(client) ==
    [BlocklistRefs |-> client.BlocklistRefs,
     WhitelistRefs |-> client.WhitelistRefs,
     Mode |-> client.Mode]

\* the early error returns of the client mutators: no state is touched
ClientCallFails(op, ip, err, io) ==
    /\ io = "ok"
    /\ ClientCall(op, ip, err)
    /\ UNCHANGED <<BlocklistTries, WhitelistTries, Clients, clientsNil, blockFiles,
                   whiteFiles, configDoc, crashed>>

\* "Store in memory" and "Save to file" of CreateClient and UpdateClient
StoreClient(op, client, io) ==
    /\ Clients' = Put(Clients, client.IP, StoredConfig(client))
    /\ SaveClientConfig(Put(Clients, client.IP, StoredConfig(client)), io)
    /\ ClientCall(op, client.IP, SaveErr(io))
    /\ UNCHANGED <<BlocklistTries, WhitelistTries, clientsNil, blockFiles, whiteFiles,
                   crashed>>

\* DNSFilter.CreateClient(client); storing into the nil map panics
CreateClient(client, io) ==
    /\ CanCall
    /\ IF client.IP \in DOMAIN Clients
       THEN ClientCallFails("CreateClient", client.IP, "client already exists", io)
       ELSE IF validateListReferences(client) # "nil"
       THEN ClientCallFails("CreateClient", client.IP, validateListReferences(client), io)
       ELSE IF ~IsMode(client.Mode)
       THEN ClientCallFails("CreateClient", client.IP, "invalid mode", io)
       ELSE IF clientsNil
       THEN /\ io = "ok"
            /\ crashed' = TRUE
            /\ ClientCall("CreateClient", client.IP, "panic")
            /\ UNCHANGED <<BlocklistTries, WhitelistTries, Clients, clientsNil,
                           blockFiles, whiteFiles, configDoc>>
       ELSE StoreClient("CreateClient", client, io)

\* DNSFilter.UpdateClient(client)
UpdateClient(client, io) ==
    /\ CanCall
    /\ IF client.IP \notin DOMAIN Clients
       THEN ClientCallFails("UpdateClient", client.IP, "client not found", io)
       ELSE IF validateListReferences(client) # "nil"
       THEN ClientCallFails("UpdateClient", client.IP, validateListReferences(client), io)
       ELSE IF ~IsMode(client.Mode)
       THEN ClientCallFails("UpdateClient", client.IP, "invalid mode", io)
       ELSE StoreClient("UpdateClient", client, io)

\* DNSFilter.DeleteClient(ip)
DeleteClient(ip, io) ==
    /\ CanCall
    /\ IF ip \notin DOMAIN Clients
       THEN ClientCallFails("DeleteClient", ip, "client not found", io)
       ELSE /\ Clients' = Drop(Clients, ip)
            /\ SaveClientConfig(Drop(Clients, ip), io)
            /\ ClientCall("DeleteClient", ip, SaveErr(io))
            /\ UNCHANGED <<BlocklistTries, WhitelistTries, clientsNil, blockFiles,
                           whiteFiles, crashed>>

RECURSIVE AnyListMatches_UnloadedMatches(_, _, _, _)
\* variant of the loop in which a reference without a trie counts as a match
AnyListMatches_UnloadedMatches(refs, tries, domain, i) ==
    IF i > Len(refs) THEN FALSE
    ELSE IF refs[i] \notin DOMAIN tries THEN TRUE
    ELSE IF IsDomainBlocked(tries[refs[i]], domain) THEN TRUE
    ELSE AnyListMatches_UnloadedMatches(refs, tries, domain, i + 1)

RECURSIVE AnyListMatches_StopAtUnloaded(_, _, _, _)
\* variant of the loop that ends at the first reference without a trie
AnyListMatches_StopAtUnloaded(refs, tries, domain, i) ==
    IF i > Len(refs) THEN FALSE
    ELSE IF refs[i] \notin DOMAIN tries THEN FALSE
    ELSE IF IsDomainBlocked(tries[refs[i]], domain) THEN TRUE
    ELSE AnyListMatches_StopAtUnloaded(refs, tries, domain, i + 1)

RECURSIVE AnyListMatches(_, _, _, _)
\* the loop of CheckDomain over the referenced lists from index i: a
\* reference without a trie is skipped, the first match ends the loop
AnyListMatches(refs, tries, domain, i) ==
    IF i > Len(refs) THEN FALSE
    ELSE IF refs[i] \notin DOMAIN tries THEN AnyListMatches(refs, tries, domain, i + 1)
    ELSE IF IsDomainBlocked(tries[refs[i]], domain) THEN TRUE
    ELSE AnyListMatches(refs, tries, domain, i + 1)

\* variant of CheckDomain whose blocklist mode consults the whitelists
CheckDomain_BlockUsesWhitelist(clientIP, domain) ==
    IF clientIP \notin DOMAIN Clients THEN FALSE
    ELSE LET config == Clients[clientIP]
         IN  IF config.Mode = "blocklist"
             THEN ~AnyListMatches(config.WhitelistRefs, WhitelistTries, domain, 1)
             ELSE IF config.Mode = "whitelist"
             THEN AnyListMatches(config.WhitelistRefs, WhitelistTries, domain, 1)
             ELSE FALSE

\* variant of CheckDomain that treats every other mode as blocklist mode
CheckDomain_OtherModeBlocks(clientIP, domain) ==
    IF clientIP \notin DOMAIN Clients THEN FALSE
    ELSE LET config == Clients[clientIP]
         IN  IF config.Mode = "whitelist"
             THEN AnyListMatches(config.WhitelistRefs, WhitelistTries, domain, 1)
             ELSE ~AnyListMatches(config.BlocklistRefs, BlocklistTries, domain, 1)

\* DNSFilter.CheckDomain(clientIP, domain): TRUE when the client may access
\* the domain
CheckDomain(clientIP, domain) ==
    IF clientIP \notin DOMAIN Clients THEN FALSE
    ELSE LET config == Clients[clientIP]
         IN  IF config.Mode = "blocklist"
             THEN ~AnyListMatches(config.BlocklistRefs, BlocklistTries, domain, 1)
             ELSE IF config.Mode = "whitelist"
             THEN AnyListMatches(config.WhitelistRefs, WhitelistTries, domain, 1)
             ELSE FALSE

\* a call of CheckDomain (the check endpoint or the DNS handler)
CallCheckDomain(clientIP, domain) ==
    /\ CanCall
    /\ lastOp' = [NoOp EXCEPT !.op = "CheckDomain", !.ip = clientIP, !.domain = domain,
                              !.allowed = CheckDomain(clientIP, domain)]
    /\ nOps' = nOps + 1
    /\ UNCHANGED <<BlocklistTries, WhitelistTries, Clients, clientsNil, blockFiles,
                   whiteFiles, configDoc, crashed>>

\* the Domains of the ListContent GetListContent can return: one result for
\* every order in which the maps of the trie can be ranged over
GetListContentDomains(listName, listType) ==
    extractDomainsFromTrie(TriesOf(listType)[listName])

\* DNSFilter.GetListContent(listName, listType)
GetListContent(listName, listType) ==
    /\ CanCall
    /\ ListCall("GetListContent", listName, listType,
                IF ~IsListType(listType) THEN "invalid list type"
                ELSE IF listName \notin DOMAIN TriesOf(listType) THEN "list not found"
                ELSE "nil")
    /\ UNCHANGED <<BlocklistTries, WhitelistTries, Clients, clientsNil, blockFiles,
                   whiteFiles, configDoc, crashed>>

\* DNSFilter.GetClientByIP(ip)
GetClientByIP(ip) ==
    /\ CanCall
    /\ ClientCall("GetClientByIP", ip,
                  IF ip \notin DOMAIN Clients THEN "client not found" ELSE "nil")
    /\ UNCHANGED <<BlocklistTries, WhitelistTries, Clients, clientsNil, blockFiles,
                   whiteFiles, configDoc, crashed>>

\* the status code the handler of the operation writes for the error the
\* DNSFilter call returned (the list handlers answer an invalid list type
\* themselves, with the same code)
StatusOf(op, err) ==
    CASE op \in {"GetListContent", "GetClientByIP"} ->
             IF err = "nil" THEN 200
             ELSE IF err = "invalid list type" THEN 400 ELSE 404
      [] op \in {"CreateList", "CreateClient"} -> IF err = "nil" THEN 201 ELSE 400
      [] op \in {"DeleteList", "DeleteClient"} -> IF err = "nil" THEN 204 ELSE 400
      [] op \in {"UpdateList", "AddDomains", "RemoveDomains", "UpdateClient"} ->
             IF err = "nil" THEN 200 ELSE 400
      [] OTHER -> 200

\* the call returns to its caller
Respond ==
    /\ lastOp.op # "none"
    /\ ~crashed
    /\ lastOp' = NoOp
    /\ UNCHANGED <<BlocklistTries, WhitelistTries, Clients, clientsNil, blockFiles,
                   whiteFiles, configDoc, crashed, nOps>>

-----------------------------------------------------------------------------
(* Inputs of the engine specification *)

ListNames == {"ads", "ok"}

ListTypeInputs == {"blocklist", "whitelist", "greylist"}

\* the two kinds of list
ListKinds == {"blocklist", "whitelist"}

ClientIPs == {"10.0.0.1", "10.0.0.2"}

ModeInputs == {"blocklist", "whitelist", "greylist"}

\* outcome of writing the client document
IOOutcomes == {"ok", "fail"}

\* outcome of writing or removing a list file
ListIO == {"ok"}

S_c == <<"c">>
S_bc == <<"b", ".", "c">>
S_abc == <<"a", ".", "b", ".", "c">>
S_xbc == <<"x", ".", "b", ".", "c">>
S_bc_a == <<"b", ".", "c", " ", "!", "a">>
S_dotc == <<".", "c">>
S_c_ab == <<"c", " ", "!", "a", ".", "b">>

\* request bodies of the list mutators
DomainInputs == { <<S_bc_a>>, <<S_dotc, S_c_ab>> }

QueryInputs == { S_c, S_bc, S_abc, S_xbc }

ListInputs ==
    [Name : ListNames, Type : ListTypeInputs, Domains : DomainInputs]

\* the blocklist and whitelist references of a client request
RefPairs ==
    { << <<>>, <<>> >>,
      << <<"ads">>, <<"ok">> >>,
      << <<"ads", "ok">>, <<>> >>,
      << <<"ok">>, <<"ads">> >> }

ClientInputs ==
    { [IP |-> ip, BlocklistRefs |-> r[1], WhitelistRefs |-> r[2], Mode |-> m] :
          ip \in ClientIPs, r \in RefPairs, m \in ModeInputs }

Policy(mode, blockRefs, whiteRefs) ==
    [BlocklistRefs |-> blockRefs, WhitelistRefs |-> whiteRefs, Mode |-> mode]

\* what the disk holds when the plugin is loaded
DiskImages ==
    { \* a fresh installation
      [doc |-> DocAbsent, blockFiles |-> <<>>, whiteFiles |-> <<>>],
      \* a document that names lists whose files are missing, and a client
      \* whose mode is neither of the two modes
      [doc |-> DocOf(("10.0.0.1" :> Policy("blocklist", <<"ok", "ads">>, <<"ok">>)) @@
                     ("10.0.0.2" :> Policy("greylist", <<"ads">>, <<"ok">>))),
       blockFiles |-> ("ads" :> FileLines(<<S_bc_a>>)),
       whiteFiles |-> ("ok" :> FileLines(<<S_c>>))],
      [doc |-> DocOf(("10.0.0.1" :> Policy("whitelist", <<"ads">>, <<"ads", "ok">>))),
       blockFiles |-> ("ads" :> FileLines(<<S_c>>)),
       whiteFiles |-> ("ok" :> FileLines(<<S_bc_a>>))],
      \* a document that cannot be parsed, and one that holds JSON null
      [doc |-> DocCorrupt, blockFiles |-> ("ads" :> FileLines(<<S_c>>)), whiteFiles |-> <<>>],
      [doc |-> DocNull, blockFiles |-> <<>>, whiteFiles |-> <<>>] }

TrieIdle ==
    /\ trie = NewTrie
    /\ tEntries = <<>>
    /\ tLast = [done |-> FALSE, name |-> <<>>, blocked |-> FALSE]

Init == (\E image \in DiskImages : Initialize(image)) /\ TrieIdle /\ PlugIdle

DoCreateList ==
    \E list \in ListInputs, io \in ListIO : CreateList(list, io) /\ UNCHANGED <<trieVars, plugVars>>

DoUpdateList ==
    \E list \in ListInputs, io \in ListIO : UpdateList(list, io) /\ UNCHANGED <<trieVars, plugVars>>

DoDeleteList ==
    \E n \in ListNames, t \in ListTypeInputs, io \in IOOutcomes, rm \in ListIO :
        DeleteList(n, t, io, rm) /\ UNCHANGED <<trieVars, plugVars>>

DoAddDomains ==
    \E n \in ListNames, t \in ListTypeInputs, d \in DomainInputs, io \in ListIO :
        AddDomains(n, t, d, io) /\ UNCHANGED <<trieVars, plugVars>>

DoRemoveDomains ==
    \E n \in ListNames, t \in ListTypeInputs, d \in DomainInputs, io \in ListIO :
        RemoveDomains(n, t, d, io) /\ UNCHANGED <<trieVars, plugVars>>

DoCreateClient ==
    \E c \in ClientInputs, io \in IOOutcomes : CreateClient(c, io) /\ UNCHANGED <<trieVars, plugVars>>

DoUpdateClient ==
    \E c \in ClientInputs, io \in IOOutcomes : UpdateClient(c, io) /\ UNCHANGED <<trieVars, plugVars>>

DoDeleteClient ==
    \E ip \in ClientIPs, io \in IOOutcomes : DeleteClient(ip, io) /\ UNCHANGED <<trieVars, plugVars>>

DoCheckDomain ==
    \E ip \in ClientIPs, q \in QueryInputs : CallCheckDomain(ip, q) /\ UNCHANGED <<trieVars, plugVars>>

DoRespond == Respond /\ UNCHANGED <<trieVars, plugVars>>

Next ==
    \/ DoCreateList
    \/ DoUpdateList
    \/ DoDeleteList
    \/ DoAddDomains
    \/ DoRemoveDomains
    \/ DoCreateClient
    \/ DoUpdateClient
    \/ DoDeleteClient
    \/ DoCheckDomain
    \/ DoRespond

Spec == Init /\ [][Next]_vars

\* the DNSFilter started on a disk whose document yields an empty registry
EmptyRegistryImages ==
    {image \in DiskImages : LoadClientConfig(image.doc).clients = <<>>}

InitEmpty == (\E image \in EmptyRegistryImages : Initialize(image)) /\ TrieIdle /\ PlugIdle

SpecEmpty == InitEmpty /\ [][Next]_vars

-----------------------------------------------------------------------------
(* REST specification: every handler of the control-plane server, getters   *)
(* included, on a fresh installation, with request bodies that repeat a     *)
(* domain, differ in letter case, carry several exceptions or hold an empty *)
(* entry.  File and document writes succeed.                                *)

E_c_a == <<"c", " ", "!", "a">>
E_c_b == <<"c", " ", "!", "b">>
E_BC_a == <<"B", ".", "C", " ", "!", "a">>
E_c_a_x == <<"c", " ", "!", "a", " ", "!", "x">>

\* request bodies of the list handlers
RestBodies ==
    { <<E_c_a, E_c_b>>, <<E_BC_a>>, <<E_c_a_x>>, <<EmptyStr, S_bc>>, <<S_bc>> }

RestNames == {"ads"}

RestLists == [Name : RestNames, Type : ListTypeInputs, Domains : RestBodies]

RestClientIPs == {"10.0.0.1"}

RestClients ==
    { [IP |-> ip, BlocklistRefs |-> r, WhitelistRefs |-> <<>>, Mode |-> "blocklist"] :
          ip \in RestClientIPs, r \in {<<>>, <<"ads">>} }

OthersIdle == TrieIdle /\ PlugIdle

InitRest ==
    /\ Initialize([doc |-> DocAbsent, blockFiles |-> <<>>, whiteFiles |-> <<>>])
    /\ OthersIdle

RestCreateList ==
    \E list \in RestLists : CreateList(list, "ok") /\ UNCHANGED <<trieVars, plugVars>>

RestUpdateList ==
    \E list \in RestLists : UpdateList(list, "ok") /\ UNCHANGED <<trieVars, plugVars>>

RestDeleteList ==
    \E n \in RestNames, t \in ListTypeInputs :
        DeleteList(n, t, "ok", "ok") /\ UNCHANGED <<trieVars, plugVars>>

RestAddDomains ==
    \E n \in RestNames, t \in ListTypeInputs, d \in RestBodies :
        AddDomains(n, t, d, "ok") /\ UNCHANGED <<trieVars, plugVars>>

RestRemoveDomains ==
    \E n \in RestNames, t \in ListTypeInputs, d \in RestBodies :
        RemoveDomains(n, t, d, "ok") /\ UNCHANGED <<trieVars, plugVars>>

RestGetListContent ==
    \E n \in RestNames, t \in ListTypeInputs :
        GetListContent(n, t) /\ UNCHANGED <<trieVars, plugVars>>

RestCreateClient ==
    \E c \in RestClients : CreateClient(c, "ok") /\ UNCHANGED <<trieVars, plugVars>>

RestUpdateClient ==
    \E c \in RestClients : UpdateClient(c, "ok") /\ UNCHANGED <<trieVars, plugVars>>

RestDeleteClient ==
    \E ip \in RestClientIPs : DeleteClient(ip, "ok") /\ UNCHANGED <<trieVars, plugVars>>

RestGetClientByIP ==
    \E ip \in RestClientIPs : GetClientByIP(ip) /\ UNCHANGED <<trieVars, plugVars>>

NextRest ==
    \/ RestCreateList
    \/ RestUpdateList
    \/ RestDeleteList
    \/ RestAddDomains
    \/ RestRemoveDomains
    \/ RestGetListContent
    \/ RestCreateClient
    \/ RestUpdateClient
    \/ RestDeleteClient
    \/ RestGetClientByIP
    \/ DoRespond

SpecRest == InitRest /\ [][NextRest]_vars

-----------------------------------------------------------------------------
(* DNS handler specification: ServeDNS calls on the plugin while the client  *)
(* handlers change the registry                                              *)

\* request.Request.Name(): the name of the question, lower-cased; a name of
\* a dns.Msg is fully qualified and ends with a dot
RequestName(qname) == ToLower(qname)

\* the questions of the requests: fully qualified names
DnsQNames ==
    { <<"c", ".">>, <<"b", ".", "c", ".">>, <<"B", ".", "C", ".">>,
      <<"a", ".", "b", ".", "c", ".">> }

\* a request as the handler sees it: the remote address and the question
DnsRequests == [ip : ClientIPs, qname : DnsQNames]

\* variant of ServeDNS whose deny branch does not return
ServeDNS_NoReturn(r) ==
    /\ ~crashed
    /\ LET allowed == IF loader.built = 0 THEN TRUE
                      ELSE CheckDomain(r.ip, RequestName(r.qname))
       IN  dnsOut' = [state |-> "done", req |-> r,
                      wrote |-> IF allowed THEN "none" ELSE "NXDOMAIN",
                      replyTo |-> IF allowed THEN NoReq ELSE r,
                      next |-> TRUE, passed |-> r, ret |-> "next"]
    /\ UNCHANGED <<engineVars, trieVars, loader, lk, web>>

\* IPBlocker.ServeDNS(ctx, w, r): CheckDomain on the address and the name of
\* the request; when it is not allowed, a reply to r with rcode NXDOMAIN is
\* written and NXDOMAIN returned; otherwise r is handed to
\* plugin.NextOrFailure with ib.Next
ServeDNS(r) ==
    /\ ~crashed
    /\ LET allowed == IF loader.built = 0 THEN TRUE
                      ELSE CheckDomain(r.ip, RequestName(r.qname))
       IN  dnsOut' = IF ~allowed
                     THEN [state |-> "done", req |-> r, wrote |-> "NXDOMAIN",
                           replyTo |-> r, next |-> FALSE, passed |-> NoReq,
                           ret |-> "NXDOMAIN"]
                     ELSE [state |-> "done", req |-> r, wrote |-> "none",
                           replyTo |-> NoReq, next |-> TRUE, passed |-> r,
                           ret |-> "next"]
    /\ UNCHANGED <<engineVars, trieVars, loader, lk, web>>

\* the client requests made while the DNS handler serves: policies of both
\* modes without references
DnsClients ==
    { [IP |-> ip, BlocklistRefs |-> <<>>, WhitelistRefs |-> <<>>, Mode |-> m] :
          ip \in ClientIPs, m \in {"blocklist", "whitelist"} }

DnsCreateClient ==
    \E c \in DnsClients : CreateClient(c, "ok") /\ UNCHANGED <<trieVars, plugVars>>

DnsUpdateClient ==
    \E c \in DnsClients : UpdateClient(c, "ok") /\ UNCHANGED <<trieVars, plugVars>>

DnsDeleteClient ==
    \E ip \in ClientIPs : DeleteClient(ip, "ok") /\ UNCHANGED <<trieVars, plugVars>>

NextDNS ==
    \/ \E r \in DnsRequests : ServeDNS(r)
    \/ DnsCreateClient
    \/ DnsUpdateClient
    \/ DnsDeleteClient
    \/ DoRespond

SpecDNS == Init /\ [][NextDNS]_vars

-----------------------------------------------------------------------------
(* Loader specification: goroutines enter setup, the first one runs the body *)
(* of setupOnce.Do, and the API serves requests once it is started           *)

\* bound: number of times setup is entered in one run
MaxSetups == 3

\* variant of the Once under which every caller runs the body
OnceDo_Always(once) == "run"

\* setupOnce.Do(f) as seen by a caller: the first caller runs f, a caller
\* that arrives while f runs waits for it, a later caller returns at once
OnceDo(once) ==
    IF once = "new" THEN "run" ELSE IF once = "running" THEN "wait" ELSE "skip"

\* before setup has run there is no instance: no DNSFilter, no maps
Unloaded(image) ==
    /\ BlocklistTries = <<>>
    /\ WhitelistTries = <<>>
    /\ Clients = <<>>
    /\ clientsNil = TRUE
    /\ blockFiles = image.blockFiles
    /\ whiteFiles = image.whiteFiles
    /\ configDoc = image.doc
    /\ lastOp = NoOp
    /\ crashed = FALSE
    /\ nOps = 0

InitLoader ==
    /\ \E image \in DiskImages : Unloaded(image)
    /\ loader = LoaderNew
    /\ TrieIdle /\ DnsIdle /\ LockIdle /\ WebIdle

LoaderOthers == <<trieVars, dnsOut, lk, web>>

\* a caller enters setup and reaches setupOnce.Do
SetupEnter(c) ==
    /\ loader.pc[c] = "out"
    /\ loader.entries < MaxSetups
    /\ loader' = [loader EXCEPT
                     !.entries = @ + 1,
                     !.once = IF OnceDo(loader.once) = "run" THEN "running" ELSE @,
                     !.pc[c] = CASE OnceDo(loader.once) = "run" -> "filter"
                                 [] OnceDo(loader.once) = "wait" -> "wait"
                                 [] OTHER -> "parse"]
    /\ UNCHANGED <<engineVars, LoaderOthers>>

\* the body of the Once, first half: instance.DNSFilter = NewDNSFilter(...)
\* and DNSFilter.Initialize() on what the disk holds
SetupNewFilter(c) ==
    /\ loader.pc[c] = "filter"
    /\ LET loaded == LoadClientConfig(configDoc)
           refs == collectUniqueListFiles(loaded.clients)
       IN  /\ Clients' = loaded.clients
           /\ clientsNil' = loaded.isNil
           /\ BlocklistTries' = IF loaded.err # "nil" THEN <<>>
                                ELSE LoadReferenced(refs.blocklists, blockFiles)
           /\ WhitelistTries' = IF loaded.err # "nil" THEN <<>>
                                ELSE LoadReferenced(refs.whitelists, whiteFiles)
    /\ loader' = [loader EXCEPT !.built = @ + 1, !.pc[c] = "api"]
    /\ UNCHANGED <<blockFiles, whiteFiles, configDoc, lastOp, crashed, nOps, LoaderOthers>>

\* the body of the Once, second half: NewAPIServer and APIServer.Initialize,
\* which starts the server goroutine unless api.running; the Once is done
SetupStartAPI(c) ==
    /\ loader.pc[c] = "api"
    /\ loader' = [loader EXCEPT !.started = @ + 1, !.running = TRUE,
                                !.once = "done", !.pc[c] = "parse"]
    /\ UNCHANGED <<engineVars, LoaderOthers>>

\* setupOnce.Do returns to a caller that waited for the body
SetupOnceReturn(c) ==
    /\ loader.pc[c] = "wait"
    /\ loader.once = "done"
    /\ loader' = [loader EXCEPT !.pc[c] = "parse"]
    /\ UNCHANGED <<engineVars, LoaderOthers>>

\* the rest of setup: the options are parsed and the plugin is added
SetupAddPlugin(c) ==
    /\ loader.pc[c] = "parse"
    /\ loader' = [loader EXCEPT !.pc[c] = "out"]
    /\ UNCHANGED <<engineVars, LoaderOthers>>

\* requests served by the API once its server goroutine runs
LoaderCreateList == loader.running /\ RestCreateList

LoaderCreateClient == loader.running /\ RestCreateClient

LoaderDeleteClient == loader.running /\ RestDeleteClient

NextLoader ==
    \/ \E c \in LoaderCallers : SetupEnter(c)
    \/ \E c \in LoaderCallers : SetupNewFilter(c)
    \/ \E c \in LoaderCallers : SetupStartAPI(c)
    \/ \E c \in LoaderCallers : SetupOnceReturn(c)
    \/ \E c \in LoaderCallers : SetupAddPlugin(c)
    \/ LoaderCreateList
    \/ LoaderCreateClient
    \/ LoaderDeleteClient
    \/ DoRespond

SpecLoader == InitLoader /\ [][NextLoader]_vars

-----------------------------------------------------------------------------
(* Lock specification: the handler goroutines of one list step by step.     *)
(* Mutators take df.mutex.Lock(), readers df.mutex.RLock(); CreateList,      *)
(* UpdateList and RemoveDomains fill a root of their own and store it in the *)
(* map, AddDomains inserts into the root the map holds.  The timeout         *)
(* middleware may answer 408 while the handler goroutine goes on.            *)

\* bound: number of requests served in one run
MaxLockCalls == 4

LockKinds == {"CreateList", "UpdateList", "AddDomains", "RemoveDomains"}

\* request bodies of the mutators
LockBodies == { <<S_c>>, <<S_bc, S_abc>> }

\* the list is on the heap with one entry, as Initialize loaded it
LockLoaded ==
    [LockFree EXCEPT !.objs = (1 :> LoadDomainList(FileLines(<<S_bc>>))),
                     !.list = 1,
                     !.latest = LoadDomainList(FileLines(<<S_bc>>))]

InitLock ==
    /\ lk \in {LockFree, LockLoaded}
    /\ EngineIdle /\ TrieIdle /\ DnsIdle /\ LoaderIdle /\ WebIdle

LockOthers == <<engineVars, trieVars, dnsOut, loader, web>>

\* variant of RLock that does not wait for the writer
CanRLock_IgnoreWriter == TRUE

\* df.mutex.RLock() returns when no goroutine holds the write lock
CanRLock == lk.writer = "none"

\* variant of Lock that does not wait for another writer
CanLock_IgnoreWriter == lk.readers = {}

\* variant of Lock that does not wait for the readers
CanLock_IgnoreReaders == lk.writer = "none"

\* df.mutex.Lock() returns when no goroutine holds the lock in either mode
CanLock == lk.writer = "none" /\ lk.readers = {}

\* the smallest address not in use on the heap
NewObj == CHOOSE n \in 1..(Cardinality(DOMAIN lk.objs) + 1) : n \notin DOMAIN lk.objs

\* the roots that a goroutine still refers to, or that the map holds
Referenced(list, loc) ==
    {list} \cup {loc[p].ptr : p \in LockProcs} \cup {loc[p].root : p \in LockProcs}

\* the heap after garbage collection
Collect(objs, list, loc) ==
    [n \in (DOMAIN objs) \cap Referenced(list, loc) |-> objs[n]]

\* a request reaches a mutator handler, which calls the DNSFilter
WriterBegin(w, kind, body) ==
    /\ lk.pc[w] = "idle"
    /\ lk.calls < MaxLockCalls
    /\ lk' = [lk EXCEPT !.calls = @ + 1, !.pc[w] = "lock",
                        !.loc[w] = [NoCall EXCEPT !.kind = kind, !.body = body]]
    /\ UNCHANGED LockOthers

\* df.mutex.Lock()
WriterLock(w) ==
    /\ lk.pc[w] = "lock"
    /\ CanLock
    /\ lk' = [lk EXCEPT !.writer = w, !.pc[w] = "body"]
    /\ UNCHANGED LockOthers

\* the head of the mutator: the existence check, then root := NewNode() for
\* CreateList, UpdateList and RemoveDomains (which keeps the enumerated
\* entries that are not to be removed), or the root of the map for AddDomains
WriterBody(w) ==
    /\ lk.pc[w] = "body"
    /\ LET kind == lk.loc[w].kind
           exists == lk.list # 0
       IN  IF kind = "CreateList" /\ exists
           THEN lk' = [lk EXCEPT !.pc[w] = "unlock", !.loc[w].err = "already exists"]
           ELSE IF kind # "CreateList" /\ ~exists
           THEN lk' = [lk EXCEPT !.pc[w] = "unlock", !.loc[w].err = "list not found"]
           ELSE IF kind = "AddDomains"
           THEN lk' = [lk EXCEPT !.pc[w] = "insert", !.loc[w].ptr = lk.list,
                                 !.loc[w].i = 1]
           ELSE IF kind = "RemoveDomains"
           THEN \E currentDomains \in extractDomainsFromTrie(lk.objs[lk.list]) :
                    lk' = [lk EXCEPT
                              !.pc[w] = "build",
                              !.objs = Put(lk.objs, NewObj, NewTrie),
                              !.loc[w].root = NewObj,
                              !.loc[w].i = 1,
                              !.loc[w].body =
                                  remainingDomains(currentDomains,
                                                   domainsToRemove(lk.loc[w].body))]
           ELSE lk' = [lk EXCEPT !.pc[w] = "build",
                                 !.objs = Put(lk.objs, NewObj, NewTrie),
                                 !.loc[w].root = NewObj,
                                 !.loc[w].i = 1]
    /\ UNCHANGED LockOthers

\* one round of the loop that inserts the entries into the new root
WriterBuild(w) ==
    /\ lk.pc[w] = "build"
    /\ lk.loc[w].i <= Len(lk.loc[w].body)
    /\ lk' = [lk EXCEPT
                 !.objs[lk.loc[w].root] = InsertEntry(@, lk.loc[w].body[lk.loc[w].i]),
                 !.loc[w].i = @ + 1]
    /\ UNCHANGED LockOthers

\* "Update in memory": the new root is stored in the map
WriterPublish(w) ==
    /\ lk.pc[w] = "build"
    /\ lk.loc[w].i > Len(lk.loc[w].body)
    /\ LET loc == [lk.loc EXCEPT ![w].root = 0]
       IN  lk' = [lk EXCEPT !.list = lk.loc[w].root,
                            !.latest = lk.objs[lk.loc[w].root],
                            !.objs = Collect(lk.objs, lk.loc[w].root, loc),
                            !.loc = loc,
                            !.pc[w] = "save"]
    /\ UNCHANGED LockOthers

\* one round of the loop of AddDomains: InsertDomain on the root of the map
WriterInsert(w) ==
    /\ lk.pc[w] = "insert"
    /\ lk.loc[w].i <= Len(lk.loc[w].body)
    /\ lk' = [lk EXCEPT
                 !.objs[lk.loc[w].ptr] = InsertEntry(@, lk.loc[w].body[lk.loc[w].i]),
                 !.loc[w].i = @ + 1]
    /\ UNCHANGED LockOthers

\* the loop of AddDomains is over: the root is stored in the map again
WriterInsertDone(w) ==
    /\ lk.pc[w] = "insert"
    /\ lk.loc[w].i > Len(lk.loc[w].body)
    /\ lk' = [lk EXCEPT !.list = lk.loc[w].ptr,
                        !.latest = lk.objs[lk.loc[w].ptr],
                        !.loc[w].ptr = 0,
                        !.pc[w] = "save"]
    /\ UNCHANGED LockOthers

\* SaveDomainList, the last statement of the mutator
WriterSave(w) ==
    /\ lk.pc[w] = "save"
    /\ lk' = [lk EXCEPT !.pc[w] = "unlock"]
    /\ UNCHANGED LockOthers

\* the deferred df.mutex.Unlock(): the mutator returns
WriterUnlock(w) ==
    /\ lk.pc[w] = "unlock"
    /\ lk' = [lk EXCEPT !.writer = "none", !.pc[w] = "idle", !.loc[w] = NoCall]
    /\ UNCHANGED LockOthers

\* a request reaches a reader (CheckDomain, GetListContent)
ReaderBegin(r) ==
    /\ lk.pc[r] = "idle"
    /\ lk.calls < MaxLockCalls
    /\ lk' = [lk EXCEPT !.calls = @ + 1, !.pc[r] = "rlock",
                        !.loc[r] = [NoCall EXCEPT !.kind = "read"]]
    /\ UNCHANGED LockOthers

\* df.mutex.RLock()
ReaderRLock(r) ==
    /\ lk.pc[r] = "rlock"
    /\ CanRLock
    /\ lk' = [lk EXCEPT !.readers = @ \cup {r}, !.pc[r] = "fetch"]
    /\ UNCHANGED LockOthers

\* trie, exists := df.BlocklistTries[listName]
ReaderFetch(r) ==
    /\ lk.pc[r] = "fetch"
    /\ IF lk.list = 0
       THEN lk' = [lk EXCEPT !.pc[r] = "runlock", !.loc[r].err = "list not found"]
       ELSE lk' = [lk EXCEPT !.pc[r] = "read", !.loc[r].ptr = lk.list]
    /\ UNCHANGED LockOthers

\* the walk over the trie (Match, enumeration) in two parts; each part sees
\* the nodes as they are on the heap at that moment
ReaderRead(r) ==
    /\ lk.pc[r] = "read"
    /\ Len(lk.loc[r].obs) < 2
    /\ lk' = [lk EXCEPT !.loc[r].obs =
                            Append(@, [seen |-> lk.objs[lk.loc[r].ptr],
                                       latest |-> lk.latest])]
    /\ UNCHANGED LockOthers

\* the walk is over
ReaderDone(r) ==
    /\ lk.pc[r] = "read"
    /\ Len(lk.loc[r].obs) = 2
    /\ LET loc == [lk.loc EXCEPT ![r].ptr = 0]
       IN  lk' = [lk EXCEPT !.loc = loc, !.pc[r] = "runlock",
                            !.objs = Collect(lk.objs, lk.list, loc)]
    /\ UNCHANGED LockOthers

\* the deferred df.mutex.RUnlock(): the reader returns
ReaderRUnlock(r) ==
    /\ lk.pc[r] = "runlock"
    /\ lk' = [lk EXCEPT !.readers = @ \ {r}, !.pc[r] = "idle", !.loc[r] = NoCall]
    /\ UNCHANGED LockOthers

\* timeoutMiddleware on a mutator request: the context is done before the
\* handler goroutine is; 408 is answered and the handler goroutine goes on
Timeout(p) ==
    /\ lk.pc[p] # "idle"
    /\ ~lk.loc[p].answered
    /\ lk' = [lk EXCEPT !.loc[p].answered = TRUE]
    /\ UNCHANGED LockOthers

NextLock ==
    \/ \E w \in LockWriters, kind \in LockKinds, body \in LockBodies : WriterBegin(w, kind, body)
    \/ \E w \in LockWriters : WriterLock(w)
    \/ \E w \in LockWriters : WriterBody(w)
    \/ \E w \in LockWriters : WriterBuild(w)
    \/ \E w \in LockWriters : WriterPublish(w)
    \/ \E w \in LockWriters : WriterInsert(w)
    \/ \E w \in LockWriters : WriterInsertDone(w)
    \/ \E w \in LockWriters : WriterSave(w)
    \/ \E w \in LockWriters : WriterUnlock(w)
    \/ \E r \in LockReaders : ReaderBegin(r)
    \/ \E r \in LockReaders : ReaderRLock(r)
    \/ \E r \in LockReaders : ReaderFetch(r)
    \/ \E r \in LockReaders : ReaderRead(r)
    \/ \E r \in LockReaders : ReaderDone(r)
    \/ \E r \in LockReaders : ReaderRUnlock(r)
    \/ \E p \in LockWriters : Timeout(p)

SpecLock == InitLock /\ [][NextLock]_vars

-----------------------------------------------------------------------------
(* The timeout middleware and the handler goroutine it starts: one exchange *)
(* at a time, statement by statement                                       *)

MaxRequests == 2

\* requests by the DNSFilter call their handler makes and the error it gets
HttpCalls ==
    { <<"CheckDomain", "nil">>, <<"CreateList", "nil">>,
      <<"CreateList", "already exists">>, <<"GetListContent", "list not found">>,
      <<"DeleteList", "nil">>, <<"DeleteClient", "nil">> }

\* how a handler answers: deleteList and deleteClient answer success with
\* w.WriteHeader alone, every other answer goes through sendJSONResponse or
\* sendErrorResponse
SenderOf(op, err) ==
    IF err # "nil" THEN "sendErrorResponse"
    ELSE IF op \in {"DeleteList", "DeleteClient"} THEN "WriteHeader"
    ELSE "sendJSONResponse"

\* what the encoder of the sender writes
BodyOf(op, err) ==
    IF SenderOf(op, err) = "WriteHeader" THEN <<>>
    ELSE IF err # "nil" THEN <<"error">> ELSE <<"data">>

JSON == "application/json"

\* ResponseWriter.WriteHeader(code): the first call sends the status line
\* with the header map as it is, a later call is ignored
WriteHeader(code) ==
    IF web.wrote THEN [web EXCEPT !.wrote = TRUE]
    ELSE [web EXCEPT !.wrote = TRUE,
                     !.resp = [status |-> code, ctype |-> web.hdr, body |-> <<>>]]

HttpOthers == <<engineVars, trieVars, dnsOut, loader, lk>>

InitHttp ==
    /\ web = NoExchange
    /\ EngineIdle /\ TrieIdle /\ DnsIdle /\ LoaderIdle /\ LockIdle

\* a request arrives: the middleware makes ctx and done, starts the handler
\* goroutine and waits in select; a goroutine left at "done <-" stays
HttpRequest(op, err) ==
    /\ ~web.fatal
    /\ web.n < MaxRequests
    /\ web.mpc \in {"none", "returned"}
    /\ web.hpc \in {"none", "exit", "send"}
    /\ web' = [NoExchange EXCEPT !.n = web.n + 1, !.op = op, !.err = err,
                                 !.hpc = "call", !.mpc = "select",
                                 !.leaked = web.leaked + (IF web.hpc = "send" THEN 1 ELSE 0)]
    /\ UNCHANGED HttpOthers

\* the handler's call of the DNSFilter returns
HandlerCall ==
    /\ ~web.fatal
    /\ web.hpc = "call"
    /\ web' = [web EXCEPT !.hpc = IF SenderOf(web.op, web.err) = "WriteHeader"
                                  THEN "wh" ELSE "set"]
    /\ UNCHANGED HttpOthers

\* w.Header().Set("Content-Type", "application/json") of the sender
HandlerSetHeader ==
    /\ ~web.fatal
    /\ web.hpc = "set"
    /\ web.mpc # "returned"
    /\ web' = [web EXCEPT !.hpc = "wh", !.hdr = JSON]
    /\ UNCHANGED HttpOthers

\* w.WriteHeader(statusCode) of the handler; deleteList and deleteClient
\* return after it
HandlerWriteHeader ==
    /\ ~web.fatal
    /\ web.hpc = "wh"
    /\ web.mpc # "returned"
    /\ web' = [WriteHeader(StatusOf(web.op, web.err)) EXCEPT
                   !.hpc = IF BodyOf(web.op, web.err) = <<>> THEN "send" ELSE "enc"]
    /\ UNCHANGED HttpOthers

\* json.NewEncoder(w).Encode of the sender; the handler returns, the
\* goroutine is at "done <- struct{}{}"
HandlerEncode ==
    /\ ~web.fatal
    /\ web.hpc = "enc"
    /\ web.mpc # "returned"
    /\ web' = [web EXCEPT !.hpc = "send",
                          !.resp.body = @ \o BodyOf(web.op, web.err)]
    /\ UNCHANGED HttpOthers

\* the handler uses the ResponseWriter after the middleware has returned and
\* the server has finished the response: the write is lost, or the process
\* dies
HandlerLateWrite(outcome) ==
    /\ ~web.fatal
    /\ web.hpc \in {"set", "wh", "enc"}
    /\ web.mpc = "returned"
    /\ web' = [web EXCEPT
                   !.hpc = IF web.hpc = "set" THEN "wh"
                           ELSE IF web.hpc = "wh" /\ BodyOf(web.op, web.err) # <<>>
                           THEN "enc" ELSE "send",
                   !.late = outcome,
                   !.fatal = (outcome = "fatal")]
    /\ UNCHANGED HttpOthers

\* the 30 seconds of context.WithTimeout are over
CtxDone ==
    /\ ~web.fatal
    /\ web.mpc = "select"
    /\ web.expiry = "never"
    /\ web' = [web EXCEPT !.expiry = IF web.hpc = "send" THEN "after" ELSE "before"]
    /\ UNCHANGED HttpOthers

\* select: the case <-ctx.Done() can be taken
CanSelectTimeout == web.mpc = "select" /\ web.expiry # "never"

\* select: the case <-done is taken, the middleware returns
SelectDone ==
    /\ ~web.fatal
    /\ web.mpc = "select"
    /\ web.hpc = "send"
    /\ web' = [web EXCEPT !.mpc = "returned", !.hpc = "exit"]
    /\ UNCHANGED HttpOthers

\* select: the case <-ctx.Done() is taken
SelectTimeout ==
    /\ ~web.fatal
    /\ CanSelectTimeout
    /\ web' = [web EXCEPT !.mpc = "t-set"]
    /\ UNCHANGED HttpOthers

\* w.Header().Set("Content-Type", "application/json") of the timeout case
TimeoutSetHeader ==
    /\ ~web.fatal
    /\ web.mpc = "t-set"
    /\ web' = [web EXCEPT !.mpc = "t-wh", !.hdr = JSON]
    /\ UNCHANGED HttpOthers

\* w.WriteHeader(http.StatusRequestTimeout)
TimeoutWriteHeader ==
    /\ ~web.fatal
    /\ web.mpc = "t-wh"
    /\ web' = [WriteHeader(408) EXCEPT !.mpc = "t-enc"]
    /\ UNCHANGED HttpOthers

\* json.NewEncoder(w).Encode(ErrorResponse{Error: "request timeout"}); the
\* middleware returns
TimeoutEncode ==
    /\ ~web.fatal
    /\ web.mpc = "t-enc"
    /\ web' = [web EXCEPT !.mpc = "returned",
                          !.resp.body = @ \o <<"request timeout">>]
    /\ UNCHANGED HttpOthers

\* both goroutines write the header map at the same time: the runtime stops
\* the process ("concurrent map writes")
ConcurrentMapWrites ==
    /\ ~web.fatal
    /\ web.hpc = "set"
    /\ web.mpc = "t-set"
    /\ web' = [web EXCEPT !.fatal = TRUE]
    /\ UNCHANGED HttpOthers

NextHttp ==
    \/ \E c \in HttpCalls : HttpRequest(c[1], c[2])
    \/ HandlerCall
    \/ HandlerSetHeader
    \/ HandlerWriteHeader
    \/ HandlerEncode
    \/ \E outcome \in {"lost", "fatal"} : HandlerLateWrite(outcome)
    \/ CtxDone
    \/ SelectDone
    \/ SelectTimeout
    \/ TimeoutSetHeader
    \/ TimeoutWriteHeader
    \/ TimeoutEncode
    \/ ConcurrentMapWrites

SpecHttp == InitHttp /\ [][NextHttp]_vars

\* the steps of the handler goroutine and of the middleware after the
\* request has arrived; the Go scheduler runs a goroutine that can run
GoroutineStep ==
    \/ HandlerCall
    \/ HandlerSetHeader
    \/ HandlerWriteHeader
    \/ HandlerEncode
    \/ \E outcome \in {"lost", "fatal"} : HandlerLateWrite(outcome)
    \/ SelectDone
    \/ SelectTimeout
    \/ TimeoutSetHeader
    \/ TimeoutWriteHeader
    \/ TimeoutEncode

\* the exchanges under a scheduler that lets every runnable goroutine run;
\* nothing obliges a request to arrive or the deadline to pass
SpecHttpFair == SpecHttp /\ WF_vars(GoroutineStep)

-----------------------------------------------------------------------------
(* DeleteList beside CreateClient, UpdateClient and a reader, statement by  *)
(* statement under df.mutex: the lists of one kind and the references the   *)
(* clients hold to them                                                     *)

MaxRefCalls == 3

RefDeleters == {"d1"}

RefMutators == {"c1"}

RefReaders == {"r1"}

RefProcs == RefDeleters \cup RefMutators \cup RefReaders

RefListNames == {"ads", "ok"}

\* the policies the client mutators post: an address and its BlocklistRefs
RefPolicies ==
    [ip : {"10.0.0.1", "10.0.0.2"}, refs : {<<>>, <<"ads">>, <<"ok", "ads">>}]

\* the locals of a goroutine that is not inside the DNSFilter, and what a
\* goroutine has not returned yet
NoRefCall == [kind |-> "none", name |-> "", ip |-> "", refs |-> <<>>,
              todo |-> <<>>, err |-> "nil", obs |-> <<>>]

\* both lists are loaded and one client refers to one of them
RefLoaded == [writer |-> "none", readers |-> {},
              pc |-> [p \in RefProcs |-> "idle"],
              loc |-> [p \in RefProcs |-> NoRefCall],
              ret |-> [p \in RefProcs |-> NoRefCall],
              lists |-> RefListNames,
              clients |-> ("10.0.0.1" :> <<"ads">>),
              calls |-> 0]

InitRefs ==
    /\ lk = RefLoaded
    /\ EngineIdle /\ TrieIdle /\ DnsIdle /\ LoaderIdle /\ WebIdle

\* a request reaches deleteList, which calls DeleteList(name, "blocklist")
RefDeleteBegin(d, n) ==
    /\ lk.pc[d] = "idle"
    /\ lk.calls < MaxRefCalls
    /\ lk' = [lk EXCEPT !.calls = @ + 1, !.pc[d] = "lock",
                        !.loc[d] = [NoRefCall EXCEPT !.kind = "DeleteList", !.name = n]]
    /\ UNCHANGED LockOthers

\* a request reaches createClient or updateClient
RefClientBegin(c, kind, policy) ==
    /\ lk.pc[c] = "idle"
    /\ lk.calls < MaxRefCalls
    /\ lk' = [lk EXCEPT !.calls = @ + 1, !.pc[c] = "lock",
                        !.loc[c] = [NoRefCall EXCEPT !.kind = kind, !.ip = policy.ip,
                                                     !.refs = policy.refs]]
    /\ UNCHANGED LockOthers

\* df.mutex.Lock() of a mutator
RefLock(p) ==
    /\ lk.pc[p] = "lock"
    /\ CanLock
    /\ lk' = [lk EXCEPT !.writer = p, !.pc[p] = "body"]
    /\ UNCHANGED LockOthers

\* DeleteList: "Check if list exists"
RefDeleteExists(d) ==
    /\ lk.pc[d] = "body"
    /\ lk' = IF lk.loc[d].name \in lk.lists
             THEN [lk EXCEPT !.pc[d] = "delete"]
             ELSE [lk EXCEPT !.pc[d] = "unlock", !.loc[d].err = "list not found"]
    /\ UNCHANGED LockOthers

\* DeleteList: "Remove from memory"; removeListReferencesFromClients starts
\* to range over df.Clients in some order
RefDeleteFromMap(d) ==
    /\ lk.pc[d] = "delete"
    /\ \E order \in Orders(DOMAIN lk.clients) :
           lk' = [lk EXCEPT !.lists = @ \ {lk.loc[d].name},
                            !.loc[d].todo = order,
                            !.pc[d] = "repair"]
    /\ UNCHANGED LockOthers

\* one round of the loop of removeListReferencesFromClients
RefDeleteRepair(d) ==
    /\ lk.pc[d] = "repair"
    /\ Len(lk.loc[d].todo) > 0
    /\ LET ip == Head(lk.loc[d].todo)
           old == IF ip \in DOMAIN lk.clients THEN lk.clients[ip] ELSE <<>>
           new == removeFromSlice(old, lk.loc[d].name)
       IN  lk' = [lk EXCEPT !.loc[d].todo = Tail(@),
                            !.clients = IF Len(new) # Len(old) THEN Put(@, ip, new) ELSE @]
    /\ UNCHANGED LockOthers

\* the loop is over: the document is saved, the list file removed
RefDeleteDone(d) ==
    /\ lk.pc[d] = "repair"
    /\ Len(lk.loc[d].todo) = 0
    /\ lk' = [lk EXCEPT !.pc[d] = "unlock"]
    /\ UNCHANGED LockOthers

\* CreateClient, UpdateClient: the check that the client exists or does not
RefClientExists(c) ==
    /\ lk.pc[c] = "body"
    /\ LET exists == lk.loc[c].ip \in DOMAIN lk.clients
       IN  lk' = IF lk.loc[c].kind = "CreateClient" /\ exists
                 THEN [lk EXCEPT !.pc[c] = "unlock", !.loc[c].err = "client already exists"]
                 ELSE IF lk.loc[c].kind = "UpdateClient" /\ ~exists
                 THEN [lk EXCEPT !.pc[c] = "unlock", !.loc[c].err = "client not found"]
                 ELSE [lk EXCEPT !.pc[c] = "validate"]
    /\ UNCHANGED LockOthers

\* validateListReferences(client)
RefClientValidate(c) ==
    /\ lk.pc[c] = "validate"
    /\ lk' = IF \A i \in 1..Len(lk.loc[c].refs) : lk.loc[c].refs[i] \in lk.lists
             THEN [lk EXCEPT !.pc[c] = "store"]
             ELSE [lk EXCEPT !.pc[c] = "unlock",
                             !.loc[c].err = "referenced blocklist not found"]
    /\ UNCHANGED LockOthers

\* "Store in memory" and "Save to file"
RefClientStore(c) ==
    /\ lk.pc[c] = "store"
    /\ lk' = [lk EXCEPT !.clients = Put(@, lk.loc[c].ip, lk.loc[c].refs),
                        !.pc[c] = "unlock"]
    /\ UNCHANGED LockOthers

\* the deferred df.mutex.Unlock(): the mutator returns
RefUnlock(p) ==
    /\ lk.pc[p] = "unlock"
    /\ lk' = [lk EXCEPT !.writer = "none", !.pc[p] = "idle",
                        !.ret[p] = lk.loc[p], !.loc[p] = NoRefCall]
    /\ UNCHANGED LockOthers

\* a request reaches a reader of the registry (GetClientByIP, CheckDomain)
RefReadBegin(r, ip) ==
    /\ lk.pc[r] = "idle"
    /\ lk.calls < MaxRefCalls
    /\ lk' = [lk EXCEPT !.calls = @ + 1, !.pc[r] = "rlock",
                        !.loc[r] = [NoRefCall EXCEPT !.kind = "read", !.ip = ip]]
    /\ UNCHANGED LockOthers

\* df.mutex.RLock()
RefRLock(r) ==
    /\ lk.pc[r] = "rlock"
    /\ CanRLock
    /\ lk' = [lk EXCEPT !.readers = @ \cup {r}, !.pc[r] = "read"]
    /\ UNCHANGED LockOthers

\* config, exists := df.Clients[ip], and the lists the maps hold then
RefRead(r) ==
    /\ lk.pc[r] = "read"
    /\ lk' = [lk EXCEPT
                 !.pc[r] = "runlock",
                 !.loc[r].err = IF lk.loc[r].ip \in DOMAIN lk.clients
                                THEN "nil" ELSE "client not found",
                 !.loc[r].refs = IF lk.loc[r].ip \in DOMAIN lk.clients
                                 THEN lk.clients[lk.loc[r].ip] ELSE <<>>,
                 !.loc[r].obs = <<lk.lists>>]
    /\ UNCHANGED LockOthers

\* the deferred df.mutex.RUnlock(): the reader returns
RefRUnlock(r) ==
    /\ lk.pc[r] = "runlock"
    /\ lk' = [lk EXCEPT !.readers = @ \ {r}, !.pc[r] = "idle",
                        !.ret[r] = lk.loc[r], !.loc[r] = NoRefCall]
    /\ UNCHANGED LockOthers

NextRefs ==
    \/ \E d \in RefDeleters, n \in RefListNames : RefDeleteBegin(d, n)
    \/ \E c \in RefMutators, kind \in {"CreateClient", "UpdateClient"}, policy \in RefPolicies :
           RefClientBegin(c, kind, policy)
    \/ \E p \in RefDeleters \cup RefMutators : RefLock(p)
    \/ \E d \in RefDeleters : RefDeleteExists(d)
    \/ \E d \in RefDeleters : RefDeleteFromMap(d)
    \/ \E d \in RefDeleters : RefDeleteRepair(d)
    \/ \E d \in RefDeleters : RefDeleteDone(d)
    \/ \E c \in RefMutators : RefClientExists(c)
    \/ \E c \in RefMutators : RefClientValidate(c)
    \/ \E c \in RefMutators : RefClientStore(c)
    \/ \E p \in RefDeleters \cup RefMutators : RefUnlock(p)
    \/ \E r \in RefReaders, ip \in {"10.0.0.1", "10.0.0.2"} : RefReadBegin(r, ip)
    \/ \E r \in RefReaders : RefRLock(r)
    \/ \E r \in RefReaders : RefRead(r)
    \/ \E r \in RefReaders : RefRUnlock(r)

SpecRefs == InitRefs /\ [][NextRefs]_vars

-----------------------------------------------------------------------------
(* The engine after start-up on disks that hold list files no policy names  *)
(* and policies that name lists without a file; removing a list file can    *)
(* fail here                                                                *)

StartNames == {"ads", "ok", "old"}

StartImages ==
    { \* blocklist "ok" is named and has no file, whitelist "ok" has a file
      \* and is not named; "ads" is named in both kinds by both clients
      [doc |-> DocOf(("10.0.0.1" :> Policy("blocklist", <<"old", "ok", "ads">>, <<"ads">>)) @@
                     ("10.0.0.2" :> Policy("whitelist", <<"ads">>, <<"ads">>))),
       blockFiles |-> ("ads" :> FileLines(<<S_bc_a>>)) @@ ("old" :> FileLines(<<S_c>>)),
       whiteFiles |-> ("ads" :> FileLines(<<S_c>>)) @@ ("ok" :> FileLines(<<S_bc>>))],
      \* no document, one list file
      [doc |-> DocAbsent, blockFiles |-> ("ads" :> FileLines(<<S_c>>)), whiteFiles |-> <<>>] }

StartLists == [Name : StartNames, Type : ListKinds, Domains : {<<S_c>>}]

InitStart == (\E image \in StartImages : Initialize(image)) /\ TrieIdle /\ PlugIdle

NextStart ==
    \/ \E list \in StartLists : CreateList(list, "ok") /\ UNCHANGED <<trieVars, plugVars>>
    \/ \E list \in StartLists : UpdateList(list, "ok") /\ UNCHANGED <<trieVars, plugVars>>
    \/ \E n \in StartNames, t \in ListKinds, io \in IOOutcomes, rm \in IOOutcomes :
           DeleteList(n, t, io, rm) /\ UNCHANGED <<trieVars, plugVars>>
    \/ \E n \in StartNames, t \in ListKinds :
           GetListContent(n, t) /\ UNCHANGED <<trieVars, plugVars>>
    \/ \E ip \in ClientIPs, q \in {S_bc, S_abc} :
           CallCheckDomain(ip, q) /\ UNCHANGED <<trieVars, plugVars>>
    \/ DoRespond

SpecStart == InitStart /\ [][NextStart]_vars

-----------------------------------------------------------------------------
(* Server-block specification: setup runs once for every server block that  *)
(* names the plugin, the server then builds the handler chain of every      *)
(* block by calling the function that setup gave to AddPlugin, and queries   *)
(* arrive on the blocks                                                     *)

\* the server blocks of the configuration that can name the plugin
ServerBlocks == {"b1", "b2", "b3"}

\* the handler that follows the plugin in the chain of a block
NextOf(block) == <<"next", block>>

\* no handler: the zero value of IPBlocker.Next
NilHandler == <<>>

\* the requests that arrive on a block
BlockRequests == [ip : ClientIPs, qname : {<<"b", ".", "c", ".">>, <<"a", ".", "b", ".", "c", ".">>}]

\* no query has been served on any block
NoBlockDns == [state |-> "idle", block |-> "", req |-> NoReq, wrote |-> "none",
               next |-> FALSE, via |-> NilHandler, ret |-> "none"]

\* the package before setup has run: setupOnce is new, there is no instance
BlocksNew(blocks) ==
    [once |-> "new", blocks |-> blocks, registered |-> {}, chained |-> {},
     started |-> 0, Next |-> NilHandler]

InitBlocks ==
    /\ \E image \in StartImages : Unloaded(image)
    /\ \E blocks \in (SUBSET ServerBlocks) \ {{}} : loader = BlocksNew(blocks)
    /\ dnsOut = NoBlockDns
    /\ TrieIdle /\ LockIdle /\ WebIdle

\* setup(c) for a server block: the first call runs the body of the Once,
\* which makes the one instance, builds and initializes its DNSFilter and
\* starts the API server; every call gives AddPlugin a function that sets
\* instance.Next and returns the instance
setup(block) ==
    /\ block \in loader.blocks \ loader.registered
    /\ IF loader.once = "new"
       THEN LET loaded == LoadClientConfig(configDoc)
                refs == collectUniqueListFiles(loaded.clients)
            IN  /\ Clients' = loaded.clients
                /\ clientsNil' = loaded.isNil
                /\ BlocklistTries' = IF loaded.err # "nil" THEN <<>>
                                     ELSE LoadReferenced(refs.blocklists, blockFiles)
                /\ WhitelistTries' = IF loaded.err # "nil" THEN <<>>
                                     ELSE LoadReferenced(refs.whitelists, whiteFiles)
       ELSE UNCHANGED <<Clients, clientsNil, BlocklistTries, WhitelistTries>>
    /\ loader' = [loader EXCEPT !.once = "done",
                                !.started = IF loader.once = "new" THEN 1 ELSE @,
                                !.registered = @ \cup {block}]
    /\ UNCHANGED <<blockFiles, whiteFiles, configDoc, lastOp, crashed, nOps,
                   dnsOut, trieVars, lk, web>>

\* the server builds the chain of a block once every setup has returned: it
\* calls the function given to AddPlugin with the next handler of that
\* block; the function stores it in instance.Next and returns the instance
BuildChain(block) ==
    /\ loader.registered = loader.blocks
    /\ block \in loader.blocks \ loader.chained
    /\ loader' = [loader EXCEPT !.Next = NextOf(block), !.chained = @ \cup {block}]
    /\ UNCHANGED <<engineVars, dnsOut, trieVars, lk, web>>

\* a query arrives on a block whose servers run: the handler of every block
\* is the instance, so ServeDNS hands an allowed query to instance.Next
ServeBlock(block, r) ==
    /\ loader.chained = loader.blocks
    /\ block \in loader.blocks
    /\ LET allowed == CheckDomain(r.ip, RequestName(r.qname))
       IN  dnsOut' = IF ~allowed
                     THEN [state |-> "done", block |-> block, req |-> r,
                           wrote |-> "NXDOMAIN", next |-> FALSE, via |-> NilHandler,
                           ret |-> "NXDOMAIN"]
                     ELSE [state |-> "done", block |-> block, req |-> r,
                           wrote |-> "none", next |-> TRUE, via |-> loader.Next,
                           ret |-> "next"]
    /\ UNCHANGED <<engineVars, loader, trieVars, lk, web>>

NextBlocks ==
    \/ \E b \in ServerBlocks : setup(b)
    \/ \E b \in ServerBlocks : BuildChain(b)
    \/ \E b \in ServerBlocks, r \in BlockRequests : ServeBlock(b, r)

SpecBlocks == InitBlocks /\ [][NextBlocks]_vars

-----------------------------------------------------------------------------
(* API server specification: goroutines call APIServer.Initialize and        *)
(* APIServer.Shutdown on one APIServer; the goroutine that Initialize starts *)
(* calls ListenAndServe when the scheduler runs it.  Of net/http it is       *)
(* assumed that Server.Shutdown closes the listeners before it waits, that   *)
(* ListenAndServe on a server that was shut down returns ErrServerClosed,    *)
(* and that a second listener on a bound port fails.                        *)

\* bound: number of Initialize and Shutdown calls in one run
MaxApiCalls == 4

\* the goroutines that call the APIServer; a caller passes its own context
\* to Shutdown
ApiCallers == {"a1", "a2"}

\* the ports Initialize is called with
ApiPorts == {"8099", "8100"}

\* what a caller has not got back yet
NoApiRet == [op |-> "none", err |-> "nil", noop |-> FALSE]

\* NewAPIServer: not running, no http.Server; servers are the http.Server
\* values made so far, server the index api.server holds (0: nil), pending
\* the goroutines that have been started and have not called ListenAndServe
ApiNew == [mutex |-> "none", running |-> FALSE, server |-> 0, servers |-> <<>>,
           pending |-> {}, pc |-> [p \in ApiCallers |-> "idle"],
           port |-> [p \in ApiCallers |-> ""],
           ret |-> [p \in ApiCallers |-> NoApiRet], calls |-> 0]

ApiOthers == <<engineVars, trieVars, dnsOut, loader, web>>

InitApi ==
    /\ lk = ApiNew
    /\ EngineIdle /\ TrieIdle /\ DnsIdle /\ LoaderIdle /\ WebIdle

\* a goroutine calls api.Initialize(..., port) or api.Shutdown(ctx)
ApiCall(p, op, port) ==
    /\ lk.pc[p] = "idle"
    /\ lk.calls < MaxApiCalls
    /\ lk' = [lk EXCEPT !.calls = @ + 1, !.pc[p] = op, !.port[p] = port,
                        !.ret[p] = NoApiRet]
    /\ UNCHANGED ApiOthers

\* api.mutex.Lock() at the head of Initialize and of Shutdown
ApiLock(p) ==
    /\ lk.pc[p] \in {"Initialize", "Shutdown"}
    /\ lk.mutex = "none"
    /\ lk' = [lk EXCEPT !.mutex = p,
                        !.pc[p] = IF lk.pc[p] = "Initialize" THEN "init" ELSE "shut"]
    /\ UNCHANGED ApiOthers

\* variant of the body of Initialize that does not look at api.running
APIServerInitialize_NoGuard(p) ==
    /\ lk.pc[p] = "init"
    /\ lk.mutex = p
    /\ lk' = [lk EXCEPT
                  !.servers = Append(@, [port |-> lk.port[p], state |-> "new",
                                          shutCtx |-> ""]),
                  !.server = Len(lk.servers) + 1,
                  !.pending = @ \cup {Len(lk.servers) + 1},
                  !.running = TRUE,
                  !.ret[p] = [op |-> "Initialize", err |-> "nil", noop |-> FALSE],
                  !.pc[p] = "unlock"]
    /\ UNCHANGED ApiOthers

\* the body of APIServer.Initialize under the mutex: nothing when
\* api.running; otherwise api.server is a new http.Server, a goroutine that
\* will call api.server.ListenAndServe() is started and api.running is set
APIServerInitialize(p) ==
    /\ lk.pc[p] = "init"
    /\ lk.mutex = p
    /\ lk' = IF lk.running
             THEN [lk EXCEPT !.ret[p] = [op |-> "Initialize", err |-> "nil",
                                         noop |-> TRUE],
                             !.pc[p] = "unlock"]
             ELSE [lk EXCEPT
                      !.servers = Append(@, [port |-> lk.port[p], state |-> "new",
                                              shutCtx |-> ""]),
                      !.server = Len(lk.servers) + 1,
                      !.pending = @ \cup {Len(lk.servers) + 1},
                      !.running = TRUE,
                      !.ret[p] = [op |-> "Initialize", err |-> "nil", noop |-> FALSE],
                      !.pc[p] = "unlock"]
    /\ UNCHANGED ApiOthers

\* the body of APIServer.Shutdown under the mutex: nothing when not
\* api.running; otherwise api.server.Shutdown(ctx) with the context of the
\* caller, whose error is returned, and api.running is cleared
APIServerShutdown(p, err) ==
    /\ lk.pc[p] = "shut"
    /\ lk.mutex = p
    /\ lk' = IF ~lk.running
             THEN [lk EXCEPT !.ret[p] = [op |-> "Shutdown", err |-> "nil",
                                         noop |-> TRUE],
                             !.pc[p] = "unlock"]
             ELSE [lk EXCEPT
                      !.servers[lk.server] = [@ EXCEPT !.state = "closed",
                                                       !.shutCtx = p],
                      !.running = FALSE,
                      !.ret[p] = [op |-> "Shutdown", err |-> err, noop |-> FALSE],
                      !.pc[p] = "unlock"]
    /\ UNCHANGED ApiOthers

\* the deferred api.mutex.Unlock(); the call returns
ApiUnlock(p) ==
    /\ lk.pc[p] = "unlock"
    /\ lk.mutex = p
    /\ lk' = [lk EXCEPT !.mutex = "none", !.pc[p] = "idle"]
    /\ UNCHANGED ApiOthers

\* the goroutine started for server g runs: it reads api.server without the
\* mutex, so it finds the server it was started for or one a later
\* Initialize has stored, and calls ListenAndServe on it; the listener is
\* bound unless the server was shut down, the port is bound or the bind
\* fails for another reason
ListenAndServe(g, s, bind) ==
    /\ g \in lk.pending
    /\ s \in g..lk.server
    /\ lk' = [lk EXCEPT
                  !.pending = @ \ {g},
                  !.servers[s].state =
                      IF /\ lk.servers[s].state = "new"
                         /\ bind
                         /\ \A o \in DOMAIN lk.servers :
                                lk.servers[o].state = "listening"
                                    => lk.servers[o].port # lk.servers[s].port
                      THEN "listening" ELSE @]
    /\ UNCHANGED ApiOthers

NextApi ==
    \/ \E p \in ApiCallers, port \in ApiPorts : ApiCall(p, "Initialize", port)
    \/ \E p \in ApiCallers : ApiCall(p, "Shutdown", "")
    \/ \E p \in ApiCallers : ApiLock(p)
    \/ \E p \in ApiCallers : APIServerInitialize(p)
    \/ \E p \in ApiCallers, err \in {"nil", "deadline"} : APIServerShutdown(p, err)
    \/ \E p \in ApiCallers : ApiUnlock(p)
    \/ \E g \in 1..MaxApiCalls, s \in 1..MaxApiCalls, bind \in BOOLEAN :
           ListenAndServe(g, s, bind)

SpecApi == InitApi /\ [][NextApi]_vars

-----------------------------------------------------------------------------
(* Properties of the policy engine (checked under Spec and SpecEmpty) *)

RefsOfKind(policy, kind) ==
    IF kind = "blocklist" THEN policy.BlocklistRefs ELSE policy.WhitelistRefs

\* some list named in refs has a loaded trie that matches name
SomeLoadedListMatches(refs, tries, name) ==
    \E n \in SeqToSet(refs) : n \in DOMAIN tries /\ IsDomainBlocked(tries[n], name)

SomeRefUnloaded(refs, tries) == \E n \in SeqToSet(refs) : n \notin DOMAIN tries

\* a decision was returned for a client that has a policy
DecidedFor(mode) ==
    /\ lastOp.op = "CheckDomain"
    /\ lastOp.ip \in DOMAIN Clients
    /\ Clients[lastOp.ip].Mode = mode

\* C1: for a client in blocklist mode the decision is Deny if and only if
\* some list named in its blocklist references has a loaded trie that matches
\* the name; unloaded references are skipped and the whitelist references
\* play no part.
C1_BlockModeDecision ==
    DecidedFor("blocklist") =>
        (~lastOp.allowed <=>
            SomeLoadedListMatches(Clients[lastOp.ip].BlocklistRefs, BlocklistTries,
                                  lastOp.domain))

\* C1 witness: a blocklist-mode client with an unloaded blocklist reference
\* is denied a name that one of its whitelists matches as well.
C1_Witness ==
    /\ DecidedFor("blocklist")
    /\ ~lastOp.allowed
    /\ SomeRefUnloaded(Clients[lastOp.ip].BlocklistRefs, BlocklistTries)
    /\ SomeLoadedListMatches(Clients[lastOp.ip].WhitelistRefs, WhitelistTries,
                             lastOp.domain)

\* C2: for a client in whitelist mode the decision is Allow if and only if
\* some list named in its whitelist references has a loaded trie that matches
\* the name; with no references or only unloaded ones it is Deny.
C2_AllowModeDecision ==
    DecidedFor("whitelist") =>
        (lastOp.allowed <=>
            SomeLoadedListMatches(Clients[lastOp.ip].WhitelistRefs, WhitelistTries,
                                  lastOp.domain))

\* C2 witness: a whitelist-mode client with an unloaded whitelist reference
\* is allowed a name.
C2_Witness ==
    /\ DecidedFor("whitelist")
    /\ lastOp.allowed
    /\ SomeRefUnloaded(Clients[lastOp.ip].WhitelistRefs, WhitelistTries)

NoValidPolicy(ip) ==
    \/ ip \notin DOMAIN Clients
    \/ Clients[ip].Mode \notin {"blocklist", "whitelist"}

\* C3: in every reachable state the decision is Deny for every name when the
\* client has no policy and when the mode of its policy is neither of the
\* two modes.
C3_DefaultDeny ==
    /\ \A ip \in ClientIPs, q \in QueryInputs : NoValidPolicy(ip) => ~CheckDomain(ip, q)
    /\ (lastOp.op = "CheckDomain" /\ NoValidPolicy(lastOp.ip)) => ~lastOp.allowed

\* C3 witness: a client whose stored mode is neither of the two modes is
\* denied a name that none of its blocklists matches.
C3_Witness ==
    /\ lastOp.op = "CheckDomain"
    /\ lastOp.ip \in DOMAIN Clients
    /\ Clients[lastOp.ip].Mode \notin {"blocklist", "whitelist"}
    /\ ~lastOp.allowed
    /\ ~SomeLoadedListMatches(Clients[lastOp.ip].BlocklistRefs, BlocklistTries,
                              lastOp.domain)

\* the entry has an empty domain label (empty entry, leading, trailing or
\* consecutive dots) or an exception label that contains a dot
IsBadEntry(entry) ==
    LET parts == Split(entry, "!")
    IN  \/ \E l \in SeqToSet(Split(TrimSpace(parts[1]), ".")) : l = EmptyStr
        \/ \E i \in 2..Len(parts) : Index(TrimSpace(parts[i]), ".") >= 0

HasBadEntry(domains) == \E e \in SeqToSet(domains) : IsBadEntry(e)

\* no node of any loaded trie is keyed by the empty label
NoEmptyLabelNode ==
    \A tries \in {BlocklistTries, WhitelistTries} :
        \A n \in DOMAIN tries :
            \A p \in DOMAIN tries[n] : \A i \in 1..Len(p) : p[i] # EmptyStr

ListsUnchanged == UNCHANGED <<BlocklistTries, WhitelistTries, blockFiles, whiteFiles>>

\* C7: a request of create, update, addEntries or removeEntries that holds an
\* entry with an empty label or a dotted exception label is rejected and
\* leaves the tries and the files unchanged; no trie has a node keyed by the
\* empty label.
C7_BadEntriesRejected ==
    [][/\ \A list \in ListInputs, io \in ListIO :
              (HasBadEntry(list.Domains) /\ (CreateList(list, io) \/ UpdateList(list, io)))
                  => (lastOp'.err # "nil" /\ ListsUnchanged)
       /\ \A n \in ListNames, t \in ListTypeInputs, d \in DomainInputs, io \in ListIO :
              (HasBadEntry(d) /\ (AddDomains(n, t, d, io) \/ RemoveDomains(n, t, d, io)))
                  => (lastOp'.err # "nil" /\ ListsUnchanged)
       /\ NoEmptyLabelNode']_vars

\* the reference sets of one kind, per client
RefSets(clients, kind) ==
    [ip \in DOMAIN clients |-> SeqToSet(RefsOfKind(clients[ip], kind))]

\* no policy of clients names the list in its references of that kind
NotReferenced(clients, listName, kind) ==
    \A ip \in DOMAIN clients : listName \notin RefSets(clients, kind)[ip]

DeleteSucceeded == lastOp.op = "DeleteList" /\ lastOp.err = "nil"

InvalidPolicy(c) ==
    \/ ~(SeqToSet(c.BlocklistRefs) \subseteq DOMAIN BlocklistTries)
    \/ ~(SeqToSet(c.WhitelistRefs) \subseteq DOMAIN WhitelistTries)
    \/ c.Mode \notin {"blocklist", "whitelist"}

\* the call was rejected and left the registry and the document alone
Rejected == lastOp'.err # "nil" /\ UNCHANGED <<Clients, configDoc>>

\* the stored policy of c.IP is the submitted one, the others are untouched
StoredExactly(c) ==
    /\ DOMAIN Clients' = DOMAIN Clients \cup {c.IP}
    /\ Clients'[c.IP].Mode = c.Mode
    /\ Clients'[c.IP].BlocklistRefs = c.BlocklistRefs
    /\ Clients'[c.IP].WhitelistRefs = c.WhitelistRefs
    /\ \A ip \in DOMAIN Clients \ {c.IP} : Clients'[ip] = Clients[ip]

\* the step is a call of the named operation
Calls(op) == lastOp.op = "none" /\ lastOp'.op = op

\* C10: create is rejected when the ip has a policy, update when it has
\* none, both when a referenced list is not loaded in the matching kind or
\* the mode is invalid; a rejection leaves the registry and the document
\* unchanged, and on success the stored policy is exactly the submitted one.
\* (A step that is a rejection without effect satisfies both parts for every
\* request, so only the other steps are matched against the requests.)
C10_ClientValidation ==
    [][/\ (Calls("CreateClient") /\ ~Rejected) =>
           \A c \in {r \in ClientInputs : r.IP = lastOp'.ip}, io \in IOOutcomes :
               CreateClient(c, io) =>
                   /\ (c.IP \in DOMAIN Clients \/ InvalidPolicy(c)) => Rejected
                   /\ lastOp'.err = "nil" => StoredExactly(c)
       /\ (Calls("UpdateClient") /\ ~Rejected) =>
           \A c \in {r \in ClientInputs : r.IP = lastOp'.ip}, io \in IOOutcomes :
               UpdateClient(c, io) =>
                   /\ (c.IP \notin DOMAIN Clients \/ InvalidPolicy(c)) => Rejected
                   /\ lastOp'.err = "nil" => StoredExactly(c)]_vars

\* C10 witness: an update succeeded and the registry and the document hold
\* the submitted whitelist-mode policy with one reference of each kind.
C10_Witness ==
    /\ lastOp.op = "UpdateClient"
    /\ lastOp.err = "nil"
    /\ Clients[lastOp.ip] = Policy("whitelist", <<"ads">>, <<"ok">>)
    /\ configDoc = DocOf(Clients)

-----------------------------------------------------------------------------
(* Properties of the REST surface (checked under SpecRest) *)

C12_NotFoundIs404 ==
    lastOp.err \in {"list not found", "client not found"} =>
        StatusOf(lastOp.op, lastOp.err) = 404

\* an entry as the pair it denotes: the case-folded domain and the set of
\* its exception labels
EntryOf(entry) ==
    LET parsed == ParseDomainWithExceptions(entry)
    IN  [domain |-> ToLower(parsed.domain), exceptions |-> SeqToSet(parsed.exceptions)]

EntrySet(entries) == {EntryOf(entries[i]) : i \in 1..Len(entries)}

\* one entry per domain of entries, with the union of the exceptions given
\* for that domain
MergedEntries(entries) ==
    {[domain |-> d,
      exceptions |-> UNION {e.exceptions : e \in {x \in EntrySet(entries) : x.domain = d}}] :
        d \in {e.domain : e \in EntrySet(entries)}}

\* the endpoints of a trie with their exception sets
Endpoints(root) ==
    [p \in {q \in DOMAIN root : root[q].IsEndpoint} |-> root[p].Exceptions]


RECURSIVE FileEntries(_)
FileEntries(lines) ==
    IF Len(lines) = 0 THEN <<>>
    ELSE LET line == TrimSpace(Head(lines))
         IN  (IF line = EmptyStr \/ HasPrefixHash(line) THEN <<>> ELSE <<line>>)
                 \o FileEntries(Tail(lines))

ListMutators == {"CreateList", "UpdateList", "AddDomains", "RemoveDomains"}

\* C14: after every successful create, update, addEntries and removeEntries
\* the file of the list is the durable form of its trie: loading the file
\* yields the endpoints and exception sets of the published trie, and
\* enumerating the loaded trie yields the entry set of the file.
C14_FileIsDurableForm ==
    (lastOp.op \in ListMutators /\ lastOp.err = "nil") =>
        LET file == FilesOf(lastOp.type)[lastOp.name]
            reloaded == LoadDomainList(file)
        IN  /\ Endpoints(reloaded) = Endpoints(TriesOf(lastOp.type)[lastOp.name])
            /\ \A got \in extractDomainsFromTrie(reloaded) :
                   EntrySet(got) = EntrySet(FileEntries(file))

\* the trie paths of the base domains of a removeEntries request
RemovedPaths(domains) ==
    {ReverseDomainParts(EntryOf(domains[i]).domain) : i \in 1..Len(domains)}

\* C15: after a successful removeEntries(name, kind, E) the list has no
\* endpoint for the base domain of any entry of E, whatever exceptions the
\* entry carried, and every other endpoint is still present with exactly its
\* previous exception set.
C15_RemovedEntriesGone ==
    [][Calls("RemoveDomains") =>
          \A n \in RestNames, t \in ListKinds, E \in RestBodies :
              (RemoveDomains(n, t, E, "ok") /\ lastOp'.err = "nil") =>
                  LET before == Endpoints(TriesOf(t)[n])
                      after == Endpoints(TriesOf(t)'[n])
                  IN  /\ RemovedPaths(E) \cap DOMAIN after = {}
                      /\ \A p \in (DOMAIN before) \ RemovedPaths(E) :
                             p \in DOMAIN after /\ after[p] = before[p]]_vars

\* C16: after a successful addEntries(name, kind, E) every previous endpoint
\* is still present with a superset of its exceptions, every domain of E is
\* an endpoint holding at least the exceptions given for it, no other
\* endpoint exists, and get returns exactly these endpoints.
C16_AddEntries ==
    [][Calls("AddDomains") =>
          \A n \in RestNames, t \in ListKinds, E \in RestBodies :
              (AddDomains(n, t, E, "ok") /\ lastOp'.err = "nil") =>
                  LET before == Endpoints(TriesOf(t)[n])
                      after == Endpoints(TriesOf(t)'[n])
                  IN  /\ \A p \in DOMAIN before :
                             p \in DOMAIN after /\ before[p] \subseteq after[p]
                      /\ \A e \in EntrySet(E) :
                             /\ ReverseDomainParts(e.domain) \in DOMAIN after
                             /\ e.exceptions \subseteq after[ReverseDomainParts(e.domain)]
                      /\ DOMAIN after = (DOMAIN before) \cup RemovedPaths(E)
                      /\ \A got \in GetListContentDomains(n, t)' :
                             /\ Len(got) = Cardinality(DOMAIN after)
                             /\ EntrySet(got) =
                                    {[domain |-> Join(Reverse(p), <<".">>),
                                      exceptions |-> after[p]] : p \in DOMAIN after}]_vars

\* C16 witness: an accepted addEntries added the exception x to the endpoint
\* c, which held the exceptions a and b before.
C16_Witness ==
    /\ lastOp.op = "AddDomains"
    /\ lastOp.err = "nil"
    /\ << <<"c">> >> \in DOMAIN Endpoints(TriesOf(lastOp.type)[lastOp.name])
    /\ Endpoints(TriesOf(lastOp.type)[lastOp.name])[<< <<"c">> >>] = {<<"a">>, <<"b">>, <<"x">>}

-----------------------------------------------------------------------------
(* Properties of the DNS handler (checked under SpecDNS) *)

\* C17: for every request the DNS handler does exactly one of two things:
\* when the decision is Deny it writes a reply to the request with rcode
\* NXDOMAIN and does not call the next handler; when the decision is Allow it
\* hands the unmodified request to the next handler and writes no reply.
C17_DenyXorAllow ==
    [][\A r \in DnsRequests :
           ServeDNS(r) =>
               /\ (dnsOut'.wrote = "NXDOMAIN") # dnsOut'.next
               /\ IF CheckDomain(r.ip, RequestName(r.qname))
                  THEN dnsOut'.next /\ dnsOut'.passed = r /\ dnsOut'.wrote = "none"
                  ELSE /\ dnsOut'.wrote = "NXDOMAIN"
                       /\ dnsOut'.replyTo = r
                       /\ ~dnsOut'.next]_vars

\* C17 witness: a request of a client of the registry was denied with an
\* NXDOMAIN reply.
C17_Witness ==
    /\ dnsOut.state = "done"
    /\ dnsOut.wrote = "NXDOMAIN"
    /\ ~dnsOut.next
    /\ dnsOut.req.ip \in DOMAIN Clients

-----------------------------------------------------------------------------
(* Properties of the loader (checked under SpecLoader) *)

\* a step of a caller of setup
LoaderStep == loader' # loader

\* C18: however many times and however concurrently setup is entered, the
\* engine is constructed and initialized exactly once and the API server is
\* started exactly once: never more than once, and once for every caller
\* that has passed the Once; the entries after the first leave the tries and
\* the registry untouched.
C18_LoadedOnce ==
    /\ [](/\ loader.built <= 1
          /\ loader.started <= 1
          /\ \A c \in LoaderCallers :
                 loader.pc[c] = "parse" => loader.built = 1 /\ loader.started = 1)
    /\ [][(LoaderStep /\ loader.once = "done") =>
              UNCHANGED <<BlocklistTries, WhitelistTries, Clients, clientsNil>>]_vars

\* C18 witness: setup has been entered as often as the bound allows, every
\* caller has left it, and the API has changed the tries and the registry.
C18_Witness ==
    /\ loader.entries = MaxSetups
    /\ \A c \in LoaderCallers : loader.pc[c] = "out"
    /\ loader.built = 1
    /\ loader.started = 1
    /\ "ads" \in DOMAIN WhitelistTries
    /\ "10.0.0.1" \in DOMAIN Clients
    /\ Clients # LoadClientConfig(configDoc).clients \/ lastOp.op # "none"

-----------------------------------------------------------------------------
(* Properties of the locking (checked under SpecLock) *)

\* the mutator w is between its Lock and its Unlock
InMutator(w) == lk.pc[w] \in {"body", "build", "insert", "save", "unlock"}

\* the reader r is between its RLock and its RUnlock
InReader(r) == lk.pc[r] \in {"fetch", "read", "runlock"}

\* C19: the readers hold the lock shared and the mutators hold it exclusive
\* for their whole read-modify-write: no walk over a trie runs while
\* addEntries inserts into that trie, and no two mutators overlap.
C19_LockDiscipline ==
    /\ \A w \in LockWriters : InMutator(w) => lk.writer = w /\ lk.readers = {}
    /\ \A r \in LockReaders : InReader(r) => r \in lk.readers /\ lk.writer = "none"
    /\ \A w \in LockWriters, r \in LockReaders :
           ~(lk.pc[w] = "insert" /\ lk.pc[r] = "read" /\ lk.loc[r].ptr = lk.loc[w].ptr)
    /\ \A w1, w2 \in LockWriters : (InMutator(w1) /\ InMutator(w2)) => w1 = w2

\* C19 witness: addEntries has inserted the first of two entries into the
\* trie of the map while a reader and the other mutator wait for the lock.
C19_Witness ==
    \E w \in LockWriters, r \in LockReaders, v \in LockWriters :
        /\ lk.pc[w] = "insert"
        /\ lk.loc[w].i = 2
        /\ Len(lk.loc[w].body) = 2
        /\ lk.objs[lk.loc[w].ptr] # lk.latest
        /\ lk.pc[r] = "rlock"
        /\ lk.pc[v] = "lock"

\* C20: create, update and removeEntries publish their trie in one step: the
\* root of the map changes only to a root that holds every entry of the
\* request; no part of a walk sees anything but the trie of the last
\* completed mutator, also after the 408 answer of the timeout; and whenever
\* no mutator is running the map holds the trie of the last completed one.
C20_AtomicPublish ==
    /\ [](/\ \A r \in LockReaders : \A i \in 1..Len(lk.loc[r].obs) :
                 lk.loc[r].obs[i].seen = lk.loc[r].obs[i].latest
          /\ (lk.writer = "none" /\ lk.list # 0) => lk.objs[lk.list] = lk.latest)
    /\ [][lk'.list # lk.list =>
              \E w \in LockWriters :
                  /\ lk.pc[w] = "build"
                  /\ lk.loc[w].kind \in {"CreateList", "UpdateList", "RemoveDomains"}
                  /\ lk'.objs[lk'.list] = InsertAll(NewTrie, lk.loc[w].body)
                  /\ lk'.latest = lk'.objs[lk'.list]]_vars

\* C20 witness: a reader has walked, in both parts, the trie that a rebuild
\* published from the body "c", while the timeout has answered 408 for a
\* mutator that waits for the lock.
C20_Witness ==
    \E w \in LockWriters, r \in LockReaders :
        /\ lk.loc[w].answered
        /\ lk.pc[w] = "lock"
        /\ lk.pc[r] = "read"
        /\ Len(lk.loc[r].obs) = 2
        /\ lk.loc[r].obs[1].seen = InsertAll(NewTrie, <<S_c>>)
        /\ lk.loc[r].obs[2].seen = InsertAll(NewTrie, <<S_c>>)

-----------------------------------------------------------------------------
(* Properties of the error paths (checked under Spec) and of the name the    *)
(* DNS handler passes on (checked under SpecDNS)                             *)

\* C22: a file-system failure while writing a list file or the client
\* document during a mutation is answered with status 500.
C22_WriteFailureIs500 ==
    lastOp.err = "io" => StatusOf(lastOp.op, lastOp.err) = 500

MutatorOps ==
    {"CreateList", "UpdateList", "DeleteList", "AddDomains", "RemoveDomains",
     "CreateClient", "UpdateClient", "DeleteClient"}

\* C26: whenever a list mutator or a client mutator returns an error, also
\* an error from writing the list file or the client document, the tries and
\* the registry in memory are as they were before the call.
C26_ErrorLeavesMemory ==
    [][(lastOp.op = "none" /\ lastOp'.op \in MutatorOps
            /\ lastOp'.err \notin {"nil", "panic"}) =>
           UNCHANGED <<BlocklistTries, WhitelistTries, Clients, clientsNil>>]_vars

\* C29: in every trie of the two maps, however it came to be (loaded at
\* start-up, created, updated, added to or removed from), the root is not an
\* endpoint and a node with a non-empty exception set is an endpoint
C29_TrieShape ==
    \A t \in ListKinds : \A n \in DOMAIN TriesOf(t) :
        LET root == TriesOf(t)[n]
        IN  /\ <<>> \in DOMAIN root
            /\ ~root[<<>>].IsEndpoint
            /\ \A p \in DOMAIN root : root[p].Exceptions # {} => root[p].IsEndpoint

\* entries have been added to a list whose trie now holds an endpoint with
\* exceptions below a node that is not an endpoint
C29_Witness ==
    /\ lastOp.op = "AddDomains"
    /\ lastOp.err = "nil"
    /\ \E t \in ListKinds : \E n \in DOMAIN TriesOf(t) :
           LET root == TriesOf(t)[n]
           IN  \E p, q \in DOMAIN root :
                   /\ root[p].IsEndpoint /\ root[p].Exceptions # {}
                   /\ q # <<>> /\ ~root[q].IsEndpoint
                   /\ Len(q) < Len(p) /\ SubSeq(p, 1, Len(q)) = q

\* C30: after a successful UpdateList the trie of the list is the trie of the
\* posted entries alone: its endpoints are the posted domains, each with the
\* exceptions posted for it, and its nodes are the root and the nodes on the
\* way to them; the client registry, the other lists and the set of lists
\* are as before
C30_UpdateReplaces ==
    [][Calls("UpdateList") =>
           \A list \in RestLists :
               (UpdateList(list, "ok") /\ lastOp'.err = "nil") =>
                   LET root == TriesOf(list.Type)'[list.Name]
                       posted == MergedEntries(list.Domains)
                   IN  /\ DOMAIN Endpoints(root)
                              = {ReverseDomainParts(e.domain) : e \in posted}
                       /\ \A e \in posted :
                              Endpoints(root)[ReverseDomainParts(e.domain)] = e.exceptions
                       /\ \A p \in DOMAIN root :
                              p = <<>> \/ \E q \in DOMAIN Endpoints(root) :
                                  Len(p) <= Len(q) /\ SubSeq(q, 1, Len(p)) = p
                       /\ Clients' = Clients
                       /\ \A t \in ListKinds :
                              /\ DOMAIN TriesOf(t)' = DOMAIN TriesOf(t)
                              /\ \A n \in DOMAIN TriesOf(t) :
                                     (t # list.Type \/ n # list.Name) =>
                                         TriesOf(t)'[n] = TriesOf(t)[n]]_vars

\* a list has been updated while the list of the same name and the other
\* kind holds other entries
C30_Witness ==
    /\ lastOp.op = "UpdateList"
    /\ lastOp.err = "nil"
    /\ lastOp.name \in DOMAIN BlocklistTries
    /\ lastOp.name \in DOMAIN WhitelistTries
    /\ Endpoints(BlocklistTries[lastOp.name]) # Endpoints(WhitelistTries[lastOp.name])

\* C21: when the middleware has returned, the client has received the 408
\* with the error body if the handler had not finished when the timeout
\* expired, and the response of the handler, status and body, with nothing
\* of the 408 if it had
C21_TimeoutOrHandler ==
    (web.mpc = "returned" /\ ~web.fatal) =>
        IF web.expiry = "before"
        THEN web.resp.status = 408 /\ web.resp.body = <<"request timeout">>
        ELSE /\ web.resp.status = StatusOf(web.op, web.err)
             /\ web.resp.body = BodyOf(web.op, web.err)

\* C23: every response the middleware has returned from carries the
\* Content-Type application/json, whatever its status
C23_AlwaysJSON ==
    (web.mpc = "returned" /\ ~web.fatal) => web.resp.ctype = JSON

\* the names a sequence of references holds
RefNames(refs) == {refs[i] : i \in 1..Len(refs)}

\* C27: DeleteList and the client mutators exclude each other from the
\* existence check to the store and from the deletion to the end of the
\* repair: a reader never sees a policy that refers to a list the map does
\* not hold, no policy refers to such a list while df.mutex is free, and
\* once a DeleteList and a client mutation that referred to its list have
\* both returned without error, the reference is gone from the registry
C27_DeleteVersusClient ==
    /\ \A r \in RefReaders :
           \A p \in {lk.loc[r], lk.ret[r]} :
               Len(p.obs) > 0 => RefNames(p.refs) \subseteq p.obs[1]
    /\ (lk.writer = "none") =>
           \A ip \in DOMAIN lk.clients : RefNames(lk.clients[ip]) \subseteq lk.lists
    /\ \A d \in RefDeleters, c \in RefMutators :
           ( /\ lk.pc[d] = "idle" /\ lk.pc[c] = "idle"
             /\ lk.ret[d].kind = "DeleteList" /\ lk.ret[d].err = "nil"
             /\ lk.ret[c].kind \in {"CreateClient", "UpdateClient"}
             /\ lk.ret[c].err = "nil"
             /\ lk.ret[d].name \in RefNames(lk.ret[c].refs) ) =>
               /\ lk.ret[c].ip \in DOMAIN lk.clients
               /\ lk.ret[d].name \notin RefNames(lk.clients[lk.ret[c].ip])

\* a client was created with a reference to a list, the list was deleted,
\* both calls have returned and a reader has read the repaired policy
C27_Witness ==
    /\ lk.pc["d1"] = "idle" /\ lk.pc["c1"] = "idle"
    /\ lk.ret["d1"].kind = "DeleteList" /\ lk.ret["d1"].err = "nil"
    /\ lk.ret["d1"].name = "ads"
    /\ lk.ret["c1"].kind = "CreateClient" /\ lk.ret["c1"].err = "nil"
    /\ lk.ret["c1"].refs = <<"ok", "ads">>
    /\ lk.clients[lk.ret["c1"].ip] = <<"ok">>
    /\ lk.ret["r1"].ip = lk.ret["c1"].ip
    /\ lk.ret["r1"].refs = <<"ok">>

\* C31: in the state Initialize leaves, before any call, every name in the
\* blocklist references of a loaded policy is a loaded blocklist and every
\* name in its whitelist references a loaded whitelist, also when the
\* document names a list whose file is missing
C31_InitialRefsLoaded ==
    (nOps = 0 /\ lastOp.op = "none") =>
        \A ip \in DOMAIN Clients :
            /\ SeqToSet(Clients[ip].BlocklistRefs) \subseteq DOMAIN BlocklistTries
            /\ SeqToSet(Clients[ip].WhitelistRefs) \subseteq DOMAIN WhitelistTries

\* C40: started on a document that could not be parsed or that holds null,
\* the engine serves with an empty registry: every query is denied, and a
\* CreateClient whose references and mode are valid returns nil, stores the
\* policy in the registry and the document, and aborts nothing
C40_UnparsedDocumentRecovers ==
    [][(clientsNil /\ lastOp.op = "none") =>
           /\ lastOp'.op = "CheckDomain" => ~lastOp'.allowed
           /\ lastOp'.op = "CreateClient" =>
                  \A c \in ClientInputs :
                      (CreateClient(c, "ok") /\ ~InvalidPolicy(c)) =>
                          /\ lastOp'.err = "nil"
                          /\ ~crashed'
                          /\ c.IP \in DOMAIN Clients'
                          /\ configDoc'.state = "object"
                          /\ c.IP \in DOMAIN configDoc'.clients]_vars

\* C35: DeleteList of a loaded list returns nil whatever removing the file
\* and saving the repaired document do: afterwards the map holds no trie for
\* the name and no policy of the registry refers to it in that kind
C35_DeleteAlwaysSucceeds ==
    [][Calls("DeleteList") =>
           \A t \in ListKinds : \A n \in DOMAIN TriesOf(t) :
               (lastOp'.name = n /\ lastOp'.type = t) =>
                   /\ lastOp'.err = "nil"
                   /\ n \notin DOMAIN TriesOf(t)'
                   /\ NotReferenced(Clients', n, t)]_vars

\* a DeleteList has returned nil although the file of the list is still on
\* disk and the document still holds the reference
C35_Witness ==
    /\ lastOp.op = "DeleteList"
    /\ lastOp.err = "nil"
    /\ lastOp.name \in DOMAIN FilesOf(lastOp.type)
    /\ lastOp.name \notin DOMAIN TriesOf(lastOp.type)
    /\ configDoc.state = "object"
    /\ ~NotReferenced(configDoc.clients, lastOp.name, lastOp.type)
    /\ NotReferenced(Clients, lastOp.name, lastOp.type)

\* the other kind of list
OtherKind(kind) == IF kind = "blocklist" THEN "whitelist" ELSE "blocklist"

\* C33: DeleteList(n, kind) leaves the set of clients, every mode, every
\* reference sequence of the other kind and every other trie as they were;
\* when it succeeds, the references of that kind are the old ones without n,
\* in their old order, and when it fails they are the old ones
C33_DeleteListFrame ==
    [][Calls("DeleteList") =>
           \A t \in ListKinds : \A n \in StartNames :
               (lastOp'.name = n /\ lastOp'.type = t) =>
                   /\ DOMAIN Clients' = DOMAIN Clients
                   /\ \A ip \in DOMAIN Clients :
                          LET Keep(x) == x # n
                              before == RefsOfKind(Clients[ip], t)
                          IN  /\ Clients'[ip].Mode = Clients[ip].Mode
                              /\ RefsOfKind(Clients'[ip], OtherKind(t))
                                     = RefsOfKind(Clients[ip], OtherKind(t))
                              /\ RefsOfKind(Clients'[ip], t)
                                     = IF lastOp'.err = "nil"
                                       THEN SelectSeq(before, Keep) ELSE before
                   /\ \A t2 \in ListKinds : \A n2 \in DOMAIN TriesOf(t2) :
                          (t2 # t \/ n2 # n) =>
                              /\ n2 \in DOMAIN TriesOf(t2)'
                              /\ TriesOf(t2)'[n2] = TriesOf(t2)[n2]]_vars

\* a blocklist has been deleted: a policy that named it in both kinds still
\* names it as a whitelist, and another keeps two blocklist references
C33_Witness ==
    /\ lastOp.op = "DeleteList"
    /\ lastOp.err = "nil"
    /\ lastOp.type = "blocklist"
    /\ \E ip \in DOMAIN Clients :
           /\ lastOp.name \in SeqToSet(Clients[ip].WhitelistRefs)
           /\ configDoc.state = "object"
           /\ lastOp.name \in SeqToSet(configDoc.clients[ip].BlocklistRefs)
    /\ \E ip \in DOMAIN Clients :
           /\ Len(Clients[ip].BlocklistRefs) = 2
           /\ lastOp.name \notin SeqToSet(Clients[ip].BlocklistRefs)

\* the names that some policy of the registry names in the given kind
ReferencedIn(clients, kind) ==
    { n \in StartNames : ~NotReferenced(clients, n, kind) }

\* C32: right after Initialize the loaded lists of each kind are the names
\* that some policy names in that kind and whose file is on disk; for a
\* file on disk that no policy names, a first get, update or delete reports
\* "list not found" and a first create does not report "already exists"
C32_OnlyReferencedLoaded ==
    [][(nOps = 0 /\ lastOp.op = "none") =>
           \A t \in ListKinds :
               /\ DOMAIN TriesOf(t) = ReferencedIn(Clients, t) \cap DOMAIN FilesOf(t)
               /\ \A n \in DOMAIN FilesOf(t) \ ReferencedIn(Clients, t) :
                      (lastOp'.name = n /\ lastOp'.type = t) =>
                          /\ lastOp'.op \in {"GetListContent", "UpdateList", "DeleteList"}
                                 => lastOp'.err = "list not found"
                          /\ lastOp'.op = "CreateList"
                                 => lastOp'.err # "already exists"]_vars

\* the first call after Initialize asked for a list whose file is on disk
\* and which no policy names, and was told that there is no such list
C32_Witness ==
    /\ nOps = 1
    /\ lastOp.op \in {"GetListContent", "UpdateList", "DeleteList"}
    /\ lastOp.err = "list not found"
    /\ lastOp.name \in DOMAIN FilesOf(lastOp.type)
    /\ ReferencedIn(Clients, lastOp.type) # {}
    /\ lastOp.name \notin ReferencedIn(Clients, lastOp.type)

\* the sequences that hold the items of refs in another order
Reordered(refs) ==
    { [i \in 1..Len(refs) |-> refs[o[i]]] : o \in Orders(1..Len(refs)) }

\* the decision of CheckDomain for a policy whose references are given
DecisionOf(mode, blockRefs, whiteRefs, domain) ==
    IF mode = "blocklist" THEN ~AnyListMatches(blockRefs, BlocklistTries, domain, 1)
    ELSE IF mode = "whitelist" THEN AnyListMatches(whiteRefs, WhitelistTries, domain, 1)
    ELSE FALSE

\* C34: a call of CheckDomain leaves the tries, the registry and the files
\* as they were, its result is the value of CheckDomain on the registry and
\* the tries of the state it is called in, and that value is the same for
\* every order of the names inside the two reference sequences of the policy
C34_DecidePure ==
    [][Calls("CheckDomain") =>
           /\ UNCHANGED <<BlocklistTries, WhitelistTries, Clients, clientsNil,
                          blockFiles, whiteFiles, configDoc>>
           /\ lastOp'.allowed = CheckDomain(lastOp'.ip, lastOp'.domain)
           /\ \A ip \in DOMAIN Clients :
                  lastOp'.ip = ip =>
                      \A b \in Reordered(Clients[ip].BlocklistRefs) :
                          \A w \in Reordered(Clients[ip].WhitelistRefs) :
                              lastOp'.allowed
                                  = DecisionOf(Clients[ip].Mode, b, w, lastOp'.domain)]_vars

\* a query was denied by a loaded blocklist that the policy names after a
\* blocklist that is not loaded
C34_Witness ==
    /\ lastOp.op = "CheckDomain"
    /\ ~lastOp.allowed
    /\ lastOp.ip \in DOMAIN Clients
    /\ Clients[lastOp.ip].Mode = "blocklist"
    /\ LET refs == Clients[lastOp.ip].BlocklistRefs
       IN  \E i, j \in 1..Len(refs) :
               /\ i < j
               /\ refs[i] \notin DOMAIN BlocklistTries
               /\ refs[j] \in DOMAIN BlocklistTries
               /\ IsDomainBlocked(BlocklistTries[refs[j]], lastOp.domain)

\* the name without the root dot that ends a fully qualified name
StripRootDot(name) ==
    IF Len(name) > 0 /\ name[Len(name)] = "."
    THEN SubSeq(name, 1, Len(name) - 1) ELSE name

\* C25: the decision does not depend on the trailing root dot of the query
\* name: CheckDomain gives the same result for the name the DNS framework
\* delivers as for the name without the dot, so a name that is not allowed
\* without the dot is answered NXDOMAIN by the DNS handler.
C25_RootDotIgnored ==
    [][\A r \in DnsRequests :
           ServeDNS(r) =>
               /\ CheckDomain(r.ip, RequestName(r.qname))
                      = CheckDomain(r.ip, StripRootDot(RequestName(r.qname)))
               /\ (dnsOut'.wrote = "NXDOMAIN")
                      = ~CheckDomain(r.ip, StripRootDot(RequestName(r.qname)))]_vars

-----------------------------------------------------------------------------
(* Properties of the timeout middleware (checked under SpecHttp and         *)
(* SpecHttpFair)                                                            *)

\* the handler goroutine of the current exchange takes one of the steps of
\* its sender on the ResponseWriter
HandlerWrites ==
    /\ web'.n = web.n
    /\ web.hpc \in {"set", "wh", "enc"}
    /\ web'.hpc # web.hpc

\* the middleware takes one of the steps of its timeout case on the
\* ResponseWriter
TimeoutWrites ==
    /\ web'.n = web.n
    /\ web.mpc \in {"t-set", "t-wh", "t-enc"}
    /\ web'.mpc # web.mpc

\* C37: once the middleware has written the status 408 and the body
\* "request timeout" the handler takes no step on the ResponseWriter, and
\* once the handler has written its whole response the middleware takes no
\* step of its timeout case on it
C37_SingleWriter ==
    [][/\ (web.resp.status = 408 /\ "request timeout" \in SeqToSet(web.resp.body))
              => ~HandlerWrites
       /\ (web.hpc = "send" /\ web.wrote /\ web.resp.status # 408)
              => ~TimeoutWrites]_vars

\* C38: the handler goroutine of every request that has returned from its
\* handler and is at "done <- struct{}{}" ends, unless the process has died
C38_HandlerGoroutineEnds ==
    \A k \in 1..MaxRequests :
        (web.n = k /\ web.hpc = "send")
            ~> ((web.n = k /\ web.hpc = "exit") \/ web.fatal)

-----------------------------------------------------------------------------
(* Properties of the plugin on several server blocks (checked under         *)
(* SpecBlocks)                                                              *)

\* C39: a query that is allowed on a block is handed to the next handler
\* that was passed when the chain of that block was built
C39_OwnNextHandler ==
    (dnsOut.state = "done" /\ dnsOut.next) => dnsOut.via = NextOf(dnsOut.block)

-----------------------------------------------------------------------------
(* Properties of the API server (checked under SpecApi) *)

\* the http.Server values whose listener is bound
LiveServers == { s \in DOMAIN lk.servers : lk.servers[s].state = "listening" }

\* a caller runs the body of Initialize or of Shutdown
ApiBody(p, pc) == lk.pc[p] = pc /\ lk'.pc[p] = "unlock"

\* C36: the body of Initialize and of Shutdown runs only in the goroutine
\* that holds the mutex; Initialize while running returns nil and makes no
\* server and starts no goroutine; Shutdown while not running returns nil
\* and changes nothing; Shutdown while running shuts the current server
\* down with the context of its caller and clears the flag; and at most one
\* http.Server has a bound listener at any time
C36_RunningFlag ==
    [][/\ \A p \in ApiCallers :
              /\ (ApiBody(p, "init") \/ ApiBody(p, "shut")) => lk.mutex = p
              /\ (ApiBody(p, "init") /\ lk.running) =>
                     /\ lk'.ret[p] = [op |-> "Initialize", err |-> "nil", noop |-> TRUE]
                     /\ lk'.running
                     /\ lk'.servers = lk.servers
                     /\ lk'.server = lk.server
                     /\ lk'.pending = lk.pending
              /\ (ApiBody(p, "init") /\ ~lk.running) =>
                     /\ lk'.running
                     /\ Len(lk'.servers) = Len(lk.servers) + 1
                     /\ lk'.pending = lk.pending \cup {lk'.server}
              /\ (ApiBody(p, "shut") /\ ~lk.running) =>
                     /\ lk'.ret[p] = [op |-> "Shutdown", err |-> "nil", noop |-> TRUE]
                     /\ ~lk'.running
                     /\ lk'.servers = lk.servers
                     /\ lk'.pending = lk.pending
              /\ (ApiBody(p, "shut") /\ lk.running) =>
                     /\ ~lk'.running
                     /\ lk'.servers[lk.server].state = "closed"
                     /\ lk'.servers[lk.server].shutCtx = p
       /\ Cardinality(LiveServers') <= 1]_vars

\* a server was shut down with the context of its caller although its
\* deadline passed, a later Initialize has a second server listening, and
\* an Initialize that found the server running has returned nil
C36_Witness ==
    /\ \E s \in DOMAIN lk.servers :
           /\ lk.servers[s].state = "closed"
           /\ lk.servers[s].shutCtx \in ApiCallers
    /\ \E p \in ApiCallers : lk.ret[p] = [op |-> "Shutdown", err |-> "deadline", noop |-> FALSE]
    /\ \E p \in ApiCallers : lk.ret[p] = [op |-> "Initialize", err |-> "nil", noop |-> TRUE]
    /\ LiveServers # {}
    /\ lk.running

-----------------------------------------------------------------------------
(* Label-trie specification: entries are inserted into one trie and names   *)
(* are looked up in it.                                                     *)

\* bound: number of entries inserted into the trie under construction
MaxInserts == 2

\* An entry is given by the labels of its domain (presentation order) and
\* its exception labels; EntryString writes it the way the documentation
\* does: "example.com !mail !forum".
RECURSIVE ExceptionSuffix(_)
ExceptionSuffix(xs) ==
    IF Len(xs) = 0 THEN EmptyStr
    ELSE <<" ", "!">> \o Head(xs) \o ExceptionSuffix(Tail(xs))

EntryString(e) == Join(e.d, <<".">>) \o ExceptionSuffix(e.xs)

NameString(labels) == Join(labels, <<".">>)

La == <<"a">>
Lb == <<"b">>
Lc == <<"c">>
Lx == <<"x">>
LA == <<"A">>
LB == <<"B">>
LC == <<"C">>
LX == <<"X">>
Lempty == <<>>
Ldotted == <<"a", ".", "b">>

Entry(d, xs) == [d |-> d, xs |-> xs]

\* entries that follow the entry syntax, in any letter case
TrieValidPool ==
    { Entry(<<Lc>>, <<>>),          \* c
      Entry(<<Lc>>, <<La>>),        \* c !a
      Entry(<<Lc>>, <<LA>>),        \* c !A
      Entry(<<Lc>>, <<Lb>>),        \* c !b
      Entry(<<Lc>>, <<La, Lx>>),    \* c !a !x
      Entry(<<Lb, Lc>>, <<>>),      \* b.c
      Entry(<<Lb, Lc>>, <<La>>),    \* b.c !a
      Entry(<<LB, LC>>, <<La>>),    \* B.C !a
      Entry(<<La, Lb, Lc>>, <<>>) } \* a.b.c

\* entries with an empty label or a dotted exception label
TrieBadPool ==
    { Entry(<<Lc, Lempty>>, <<>>),  \* c.   (trailing dot)
      Entry(<<Lempty, Lc>>, <<>>),  \* .c   (leading dot)
      Entry(<<Lempty>>, <<>>),      \* the empty entry
      Entry(<<Lc>>, <<Ldotted>>) }  \* c !a.b

TriePool == TrieValidPool \cup TrieBadPool

\* query names, as label sequences in presentation order: every domain of
\* the pool and names beside, below and above them
TrieQueryPool ==
    { e.d : e \in TriePool } \cup
    { <<LC>>, <<Lb>>, <<LB, Lc>>, <<La, Lc>>, <<LA, Lc>>, <<Lx, Lc>>,
      <<Lx, Lb, Lc>>, <<Lb, La, Lc>>, <<Lx, La, Lc>>, <<Lx, La, Lb, Lc>> }

NoLookup == [done |-> FALSE, name |-> <<>>, blocked |-> FALSE]

TrieInit ==
    /\ trie = NewTrie
    /\ tEntries = <<>>
    /\ tLast = NoLookup

\* InsertDomain(root, ParseDomainWithExceptions(entry)) on the trie
TrieInsert(e) ==
    /\ Len(tEntries) < MaxInserts
    /\ trie' = InsertEntry(trie, EntryString(e))
    /\ tEntries' = Append(tEntries, e)
    /\ tLast' = NoLookup

\* IsDomainBlocked(root, name) on the trie
TrieLookup(q) ==
    /\ tLast' = [done |-> TRUE, name |-> q,
                 blocked |-> IsDomainBlocked(trie, NameString(q))]
    /\ UNCHANGED <<trie, tEntries>>

InitTrie == EngineIdle /\ TrieInit /\ PlugIdle

DoTrieInsert == \E e \in TriePool : TrieInsert(e) /\ UNCHANGED <<engineVars, plugVars>>

DoTrieLookup == \E q \in TrieQueryPool : TrieLookup(q) /\ UNCHANGED <<engineVars, plugVars>>

NextTrie == DoTrieInsert \/ DoTrieLookup

SpecTrie == InitTrie /\ [][NextTrie]_vars

-----------------------------------------------------------------------------
(* Properties of the label trie (checked under SpecTrie) *)

RECURSIVE FoldLabels(_)
\* the labels of a name with letter case folded
FoldLabels(labels) ==
    IF Len(labels) = 0 THEN <<>>
    ELSE <<ToLower(Head(labels))>> \o FoldLabels(Tail(labels))

RECURSIVE RaiseLabels(_)
RaiseLabels(labels) ==
    IF Len(labels) = 0 THEN <<>>
    ELSE <<ToUpper(Head(labels))>> \o RaiseLabels(Tail(labels))

\* name d is name q or an ancestor of it (label sequences, presentation order)
IsSuffixOf(d, q) ==
    /\ Len(d) <= Len(q)
    /\ SubSeq(q, Len(q) - Len(d) + 1, Len(q)) = d

\* the label of q directly below its ancestor d
LabelBelow(d, q) == q[Len(q) - Len(d)]

\* C4: for a trie built from the single entry "d !x", Match is true for d
\* and for every name below d whose first sub-label is not x, false for x.d
\* and every name below x.d, and false for every name that is neither d nor
\* a subdomain of d.
C4_SingleEntryException ==
    (/\ tLast.done
     /\ Len(tEntries) = 1
     /\ tEntries[1] \in TrieValidPool
     /\ Len(tEntries[1].xs) = 1)
    => LET d == FoldLabels(tEntries[1].d)
           x == ToLower(tEntries[1].xs[1])
           q == FoldLabels(tLast.name)
       IN  tLast.blocked =
               (/\ IsSuffixOf(d, q)
                /\ (Len(q) = Len(d) \/ LabelBelow(d, q) # x))

\* C5 as stated: every inserted domain matches its own apex name, whatever
\* other entries and exceptions the trie holds.
C5_ApexAlwaysMatches ==
    (/\ tLast.done
     /\ \E i \in 1..Len(tEntries) : tEntries[i].d = tLast.name)
    => tLast.blocked

\* an inserted proper ancestor of q carries an exception that names the
\* label of q directly below that ancestor
ShadowedByException(q) ==
    \E i \in 1..Len(tEntries) :
        LET a == FoldLabels(tEntries[i].d)
            fq == FoldLabels(q)
        IN  /\ Len(a) < Len(fq)
            /\ IsSuffixOf(a, fq)
            /\ \E j \in 1..Len(tEntries[i].xs) :
                   ToLower(tEntries[i].xs[j]) = LabelBelow(a, fq)

\* C5 amended: every inserted domain d matches its own apex name, unless an
\* inserted proper ancestor of d carries an exception for the label of d
\* directly below that ancestor.
C5_ApexMatchesUnlessShadowed ==
    (/\ tLast.done
     /\ \E i \in 1..Len(tEntries) : tEntries[i].d = tLast.name
     /\ ~ShadowedByException(tLast.name))
    => tLast.blocked

\* C5 witness: the apex of an inserted domain was looked up and matched in
\* a trie that also holds a proper ancestor of it with an exception set.
C5_Witness ==
    /\ tLast.done
    /\ tLast.blocked
    /\ ~ShadowedByException(tLast.name)
    /\ \E i, j \in 1..Len(tEntries) :
           /\ tEntries[i].d = tLast.name
           /\ Len(tEntries[j].d) < Len(tEntries[i].d)
           /\ IsSuffixOf(FoldLabels(tEntries[j].d), FoldLabels(tEntries[i].d))
           /\ Len(tEntries[j].xs) > 0

RECURSIVE EntryStrings(_)
EntryStrings(entries) ==
    IF Len(entries) = 0 THEN <<>>
    ELSE <<EntryString(Head(entries))>> \o EntryStrings(Tail(entries))

RECURSIVE MapDomains(_, _)
\* entries with the letter case of the domain labels changed (up = TRUE: to
\* upper case, else to lower case)
MapDomains(entries, up) ==
    IF Len(entries) = 0 THEN <<>>
    ELSE LET e == Head(entries)
         IN  <<Entry(IF up THEN RaiseLabels(e.d) ELSE FoldLabels(e.d), e.xs)>>
                 \o MapDomains(Tail(entries), up)

RECURSIVE MapExceptions(_, _)
\* entries with the letter case of the exception labels changed
MapExceptions(entries, up) ==
    IF Len(entries) = 0 THEN <<>>
    ELSE LET e == Head(entries)
         IN  <<Entry(e.d, IF up THEN RaiseLabels(e.xs) ELSE FoldLabels(e.xs))>>
                 \o MapExceptions(Tail(entries), up)

\* the result of looking name q up in the trie built from the entries
MatchIn(entries, q) ==
    IsDomainBlocked(InsertAll(NewTrie, EntryStrings(entries)), NameString(q))

CaseOfQueryIgnored ==
    tLast.done =>
        /\ MatchIn(tEntries, FoldLabels(tLast.name)) = tLast.blocked
        /\ MatchIn(tEntries, RaiseLabels(tLast.name)) = tLast.blocked

CaseOfDomainIgnored ==
    tLast.done =>
        /\ MatchIn(MapDomains(tEntries, FALSE), tLast.name) = tLast.blocked
        /\ MatchIn(MapDomains(tEntries, TRUE), tLast.name) = tLast.blocked

CaseOfExceptionsIgnored ==
    tLast.done =>
        /\ MatchIn(MapExceptions(tEntries, FALSE), tLast.name) = tLast.blocked
        /\ MatchIn(MapExceptions(tEntries, TRUE), tLast.name) = tLast.blocked

\* C6: Match gives the same result when the letter case of the entry's
\* domain labels, of its exception labels, or of the query name is changed.
C6_CaseIgnored ==
    /\ CaseOfQueryIgnored
    /\ CaseOfDomainIgnored
    /\ CaseOfExceptionsIgnored

\* the depths at which the path of a reversed name meets an endpoint
EndpointDepths(root, parts) ==
    {i \in 1..Len(parts) :
        SubSeq(parts, 1, i) \in DOMAIN root /\ root[SubSeq(parts, 1, i)].IsEndpoint}

\* the least element of a non-empty set of numbers
Least(S) == CHOOSE i \in S : \A j \in S : i <= j

\* what the endpoint at depth k decides for a reversed name, from its own
\* exception set alone
DecidedAt(root, parts, k) ==
    ~(k + 1 <= Len(parts) /\ parts[k + 1] \in root[SubSeq(parts, 1, k)].Exceptions)

\* the path of an entry of the pool
PathOf(e) == ReverseDomainParts(ParseDomainWithExceptions(EntryString(e)).domain)

\* the entries that are not below another entry's domain
RECURSIVE Unshadowed(_, _)
Unshadowed(entries, all) ==
    IF Len(entries) = 0 THEN <<>>
    ELSE LET e == Head(entries)
             below == \E f \in all :
                          /\ Len(PathOf(f)) < Len(PathOf(e))
                          /\ SubSeq(PathOf(e), 1, Len(PathOf(f))) = PathOf(f)
         IN  (IF below THEN <<>> ELSE <<e>>) \o Unshadowed(Tail(entries), all)

\* C24: a name whose path meets endpoints is matched as the shallowest of
\* them decides from its own exception set, a name whose path meets none is
\* not matched, and the entries below another entry's domain change no
\* result: the trie without them gives every name the same result
C24_ShallowestDecides ==
    LET bare == InsertAll(NewTrie, EntryStrings(Unshadowed(tEntries, SeqToSet(tEntries))))
    IN  \A q \in TrieQueryPool :
            LET parts == ReverseDomainParts(NameString(q))
                ds == EndpointDepths(trie, parts)
            IN  /\ IsDomainBlocked(trie, NameString(q))
                       = (ds # {} /\ DecidedAt(trie, parts, Least(ds)))
                /\ IsDomainBlocked(trie, NameString(q))
                       = IsDomainBlocked(bare, NameString(q))

\* a name below two endpoints has been looked up, and the deeper endpoint
\* alone would have decided otherwise
C24_Witness ==
    /\ tLast.done
    /\ LET parts == ReverseDomainParts(NameString(tLast.name))
           ds == EndpointDepths(trie, parts)
       IN  /\ Cardinality(ds) >= 2
           /\ \E k \in ds : DecidedAt(trie, parts, k) # tLast.blocked

\* the exception set an entry of the pool carries
ExceptionsOf(e) == SeqToSet(ParseDomainWithExceptions(EntryString(e)).exceptions)

\* C28: inserting an entry a second time leaves the trie as the first
\* insertion made it; inserting a domain that is already an endpoint keeps
\* the number of endpoints and leaves the one endpoint with the union of the
\* exception sets
C28_InsertIdempotent ==
    [][Len(tEntries') > Len(tEntries) =>
           LET e == tEntries'[Len(tEntries')]
           IN  /\ TrieInsert(e)
               /\ InsertEntry(trie', EntryString(e)) = trie'
               /\ e \in SeqToSet(tEntries) => trie' = trie
               /\ (PathOf(e) \in DOMAIN trie /\ trie[PathOf(e)].IsEndpoint) =>
                      /\ countDomainsInTrie(trie') = countDomainsInTrie(trie)
                      /\ DOMAIN trie' = DOMAIN trie
                      /\ trie'[PathOf(e)].IsEndpoint
                      /\ trie'[PathOf(e)].Exceptions
                             = trie[PathOf(e)].Exceptions \cup ExceptionsOf(e)]_vars

\* the same domain has been inserted twice with different exception sets and
\* the trie holds one endpoint with both sets
C28_Witness ==
    /\ Len(tEntries) = 2
    /\ PathOf(tEntries[1]) = PathOf(tEntries[2])
    /\ ExceptionsOf(tEntries[1]) \ ExceptionsOf(tEntries[2]) # {}
    /\ ExceptionsOf(tEntries[2]) \ ExceptionsOf(tEntries[1]) # {}
    /\ countDomainsInTrie(trie) = 1
    /\ trie[PathOf(tEntries[1])].Exceptions
           = ExceptionsOf(tEntries[1]) \cup ExceptionsOf(tEntries[2])

====
